---- MODULE Spec2Model ----
(***************************************************************************)
(* A model of improved_2gis_parser.py (class GISParser): the name          *)
(* normalizer, the address similarity test, the processed-company index,   *)
(* the pagination loop, the per-category crawl of a run and its exits, the *)
(* selector chain, the two decoders of link.2gis.com redirect links, the   *)
(* choice of the control that leads to the next page and the stages of     *)
(* extract_whatsapp that build a link from a phone number.                 *)
(*                                                                         *)
(* Text.  A Python str is modelled as a sequence of characters.  An ASCII  *)
(* character is the one-character string of itself; a non-ASCII character  *)
(* is named by its code point ("U+2116" is the numero sign).               *)
(***************************************************************************)
EXTENDS Integers, Sequences, FiniteSets, TLC

\* ------------------------------------------------------------------ text

\* Python's None, where a str is expected (never equal to any str).
None == <<"None">>

\* An exception, where a value was expected.
Raised == <<"raised">>

\* bool(x) of an Optional[str]: None and '' are falsy.
Truthy(x) == x # None /\ x # <<>>

cyr_a == "U+0430"
cyr_v == "U+0432"
cyr_g == "U+0433"
cyr_d == "U+0434"
cyr_e == "U+0435"
cyr_z == "U+0437"
cyr_i == "U+0438"
cyr_j == "U+0439"
cyr_k == "U+043A"
cyr_l == "U+043B"
cyr_m == "U+043C"
cyr_n == "U+043D"
cyr_o == "U+043E"
cyr_r == "U+0440"
cyr_t == "U+0442"
cyr_u == "U+0443"
cyr_f == "U+0444"
cyr_c == "U+0446"
cyr_ch == "U+0447"
cyr_y == "U+044B"
cyr_N == "U+041D"
numero == "U+2116"

AsciiUpper ==
  <<"A", "B", "C", "D", "E", "F", "G", "H", "I", "J", "K", "L", "M",
    "N", "O", "P", "Q", "R", "S", "T", "U", "V", "W", "X", "Y", "Z">>

AsciiLower ==
  <<"a", "b", "c", "d", "e", "f", "g", "h", "i", "j", "k", "l", "m",
    "n", "o", "p", "q", "r", "s", "t", "u", "v", "w", "x", "y", "z">>

CyrLower ==
  {cyr_a, cyr_v, cyr_g, cyr_d, cyr_e, cyr_z, cyr_i, cyr_j, cyr_k, cyr_l,
   cyr_m, cyr_n, cyr_o, cyr_r, cyr_t, cyr_u, cyr_f, cyr_c, cyr_ch, cyr_y}

Range(f) == {f[i] : i \in DOMAIN f}

Digits == {"0", "1", "2", "3", "4", "5", "6", "7", "8", "9"}

\* The characters \s matches (and str.strip and str.split remove).
Whitespace == {" ", "\t", "\n"}

\* The characters \w matches: letters, digits and the underscore.  The numero
\* sign (category So) and the punctuation marks are not among them.
WordChars == Range(AsciiUpper) \cup Range(AsciiLower) \cup CyrLower
               \cup {cyr_N} \cup Digits \cup {"_"}

\* str.lower(), character by character.
LowerChar(ch) ==
  IF ch = cyr_N THEN cyr_n
  ELSE IF \E i \in 1..26 : AsciiUpper[i] = ch
       THEN AsciiLower[CHOOSE i \in 1..26 : AsciiUpper[i] = ch]
       ELSE ch

lower(s) == [i \in 1..Len(s) |-> LowerChar(s[i])]

RECURSIVE lstrip(_)
lstrip(s) ==
  IF s # <<>> /\ Head(s) \in Whitespace THEN lstrip(Tail(s)) ELSE s

RECURSIVE rstrip(_)
rstrip(s) ==
  IF s # <<>> /\ s[Len(s)] \in Whitespace
  THEN rstrip(SubSeq(s, 1, Len(s) - 1))
  ELSE s

\* str.strip()
strip(s) == rstrip(lstrip(s))

\* `a in b` for two str: a occurs in b as a contiguous substring.
IsSubstring(a, b) ==
  \E i \in 0..(Len(b) - Len(a)) : SubSeq(b, i + 1, i + Len(a)) = a

\* str.split(): the maximal runs of non-whitespace characters.
RECURSIVE SplitFrom(_, _, _)
SplitFrom(s, i, word) ==
  IF i > Len(s)
  THEN IF word = <<>> THEN <<>> ELSE <<word>>
  ELSE IF s[i] \in Whitespace
       THEN (IF word = <<>> THEN <<>> ELSE <<word>>) \o SplitFrom(s, i + 1, <<>>)
       ELSE SplitFrom(s, i + 1, Append(word, s[i]))

split(s) == SplitFrom(s, 1, <<>>)

\* --------------------------------------------------- regular expressions
\* A pattern is a sequence of items: a literal character, a character class
\* taken once, a greedy class* or class+, the anchor $, an alternation of
\* literal words (?:a|b|...) tried in the order written, or an optional
\* sub-pattern (?:...)?.

Lit(w) == [i \in 1..Len(w) |-> [k |-> "lit", c |-> w[i]]]
Exact(w) == [i \in 1..Len(w) |-> [k |-> "exact", c |-> w[i]]]
Alt(words) == [k |-> "alt", c |-> words]
Opt(sub) == [k |-> "opt", c |-> sub]
Star(cls) == [k |-> "star", c |-> cls]
Plus(cls) == [k |-> "plus", c |-> cls]
One(cls) == [k |-> "one", c |-> cls]
EndAnchor == [k |-> "end", c |-> "$"]

InClass(ch, cls) ==
  CASE cls = "\\s" -> ch \in Whitespace
    [] cls = "\\d" -> ch \in Digits
    [] cls = "[^\\w\\s]" -> ch \notin WordChars /\ ch \notin Whitespace
    [] cls = "[^)]" -> ch # ")"
    [] cls = "." -> ch # "\n"
    [] cls = "[a-zA-Z0-9]" ->
         ch \in Range(AsciiUpper) \cup Range(AsciiLower) \cup Digits
    [] cls = "[-a-zA-Z0-9]" ->
         ch \in Range(AsciiUpper) \cup Range(AsciiLower) \cup Digits \cup {"-"}
    [] cls = "[^\\s]" -> ch \notin Whitespace
    [] cls = "[^\\s%\"']" -> ch \notin Whitespace \cup {"%", "\"", "'"}
    [] cls = "[^0-9]" -> ch \notin Digits
    [] cls = "[\"']" -> ch \in {"\"", "'"}
    [] cls = "[^\"']" -> ch \notin {"\"", "'"}

RECURSIVE RunLen(_, _, _)
RunLen(s, i, cls) ==
  IF i <= Len(s) /\ InClass(s[i], cls) THEN 1 + RunLen(s, i + 1, cls) ELSE 0

\* re's backtracking matcher: the index just past the match of pat[k..] that
\* starts at index i of s, greedy items trying the longest run first; 0 when
\* there is no match.  A "lit" item compares case-insensitively (a pattern
\* compiled with re.IGNORECASE), an "exact" item compares as written.
RECURSIVE MatchFrom(_, _, _, _)
RECURSIVE MatchRepeat(_, _, _, _, _, _)
RECURSIVE MatchAlt(_, _, _, _, _)
MatchFrom(pat, k, s, i) ==
  IF k > Len(pat) THEN i
  ELSE LET it == pat[k] IN
    CASE it.k = "lit" ->
           IF i <= Len(s) /\ LowerChar(s[i]) = LowerChar(it.c)
           THEN MatchFrom(pat, k + 1, s, i + 1) ELSE 0
      [] it.k = "exact" ->
           IF i <= Len(s) /\ s[i] = it.c
           THEN MatchFrom(pat, k + 1, s, i + 1) ELSE 0
      [] it.k = "alt" -> MatchAlt(pat, k, s, i, 1)
      [] it.k = "opt" ->
           LET r == MatchFrom(it.c \o SubSeq(pat, k + 1, Len(pat)), 1, s, i) IN
           IF r # 0 THEN r ELSE MatchFrom(pat, k + 1, s, i)
      [] it.k = "one" ->
           IF i <= Len(s) /\ InClass(s[i], it.c)
           THEN MatchFrom(pat, k + 1, s, i + 1) ELSE 0
      [] it.k = "star" -> MatchRepeat(pat, k, s, i, RunLen(s, i, it.c), 0)
      [] it.k = "plus" -> MatchRepeat(pat, k, s, i, RunLen(s, i, it.c), 1)
      [] it.k = "end" ->
           IF i = Len(s) + 1 \/ (i = Len(s) /\ s[i] = "\n")
           THEN MatchFrom(pat, k + 1, s, i) ELSE 0

MatchRepeat(pat, k, s, i, n, least) ==
  IF n < least THEN 0
  ELSE LET r == MatchFrom(pat, k + 1, s, i + n) IN
       IF r # 0 THEN r ELSE MatchRepeat(pat, k, s, i, n - 1, least)

MatchAlt(pat, k, s, i, j) ==
  IF j > Len(pat[k].c) THEN 0
  ELSE LET r == MatchFrom(Lit(pat[k].c[j]) \o SubSeq(pat, k + 1, Len(pat)), 1, s, i) IN
       IF r # 0 THEN r ELSE MatchAlt(pat, k, s, i, j + 1)

\* re.findall(pattern, s) of a pattern prefix(group): the text of the group in
\* each of the leftmost non-overlapping matches.  The prefixes of the program
\* end in a literal, so the group starts where the prefix alone stops.
RECURSIVE FindFrom(_, _, _, _)
FindFrom(prefix, group, s, i) ==
  IF i > Len(s) THEN <<>>
  ELSE LET e == MatchFrom(prefix \o group, 1, s, i) IN
       IF e > i
       THEN <<SubSeq(s, MatchFrom(prefix, 1, s, i), e - 1)>>
              \o FindFrom(prefix, group, s, e)
       ELSE FindFrom(prefix, group, s, i + 1)

re_findall(prefix, group, s) == FindFrom(prefix, group, s, 1)

\* re.findall of a pattern prefix(group)suffix.  In the patterns of the
\* program the group is settled by where it starts: what follows it cannot
\* match a shorter or a longer group.
RECURSIVE FindWithin(_, _, _, _, _)
FindWithin(prefix, group, suffix, s, i) ==
  IF i > Len(s) THEN <<>>
  ELSE LET e == MatchFrom(prefix \o group \o suffix, 1, s, i) IN
       IF e > i
       THEN <<SubSeq(s, MatchFrom(prefix, 1, s, i),
                     MatchFrom(prefix \o group, 1, s, i) - 1)>>
              \o FindWithin(prefix, group, suffix, s, e)
       ELSE FindWithin(prefix, group, suffix, s, i + 1)

re_findall_within(prefix, group, suffix, s) ==
  FindWithin(prefix, group, suffix, s, 1)

\* re.sub(pat, repl, s): the leftmost non-overlapping matches, scanning left
\* to right.  No pattern of the program matches the empty string.
RECURSIVE SubFrom(_, _, _, _)
SubFrom(pat, repl, s, i) ==
  IF i > Len(s) THEN <<>>
  ELSE LET e == MatchFrom(pat, 1, s, i) IN
       IF e > i
       THEN repl \o SubFrom(pat, repl, s, e)
       ELSE <<s[i]>> \o SubFrom(pat, repl, s, i + 1)

re_sub(pat, repl, s) == SubFrom(pat, repl, s, 1)

\* ------------------------------------------------ normalize_company_name

\* 'Не указано', the placeholder of a missing field.
NOT_SPECIFIED ==
  <<cyr_N, cyr_e, " ", cyr_u, cyr_k, cyr_a, cyr_z, cyr_a, cyr_n, cyr_o>>

suffixes_to_remove ==
  << <<Star("\\s")>> \o Lit(<<cyr_f, cyr_i, cyr_l, cyr_i, cyr_a, cyr_l>>)
       \o <<Star("\\s"), Star("\\d")>>,
     <<Star("\\s")>>
       \o Lit(<<cyr_o, cyr_t, cyr_d, cyr_e, cyr_l, cyr_e, cyr_n, cyr_i, cyr_e>>)
       \o <<Star("\\s"), Star("\\d")>>,
     <<Star("\\s")>>
       \o Lit(<<cyr_m, cyr_a, cyr_g, cyr_a, cyr_z, cyr_i, cyr_n>>)
       \o <<Star("\\s"), Star("\\d")>>,
     <<Star("\\s")>> \o Lit(<<cyr_t, cyr_o, cyr_ch, cyr_k, cyr_a>>)
       \o <<Star("\\s"), Star("\\d")>>,
     <<Star("\\s")>> \o Lit(<<numero>>) \o <<Star("\\s"), Plus("\\d")>>,
     <<Star("\\s"), Plus("\\d"), Star("\\s"), EndAnchor>>,
     <<Star("\\s")>> \o Lit(<<"m", "a", "l", "l">>) \o <<Star("\\s")>>,
     <<Star("\\s")>> \o Lit(<<cyr_t, cyr_c>>) \o <<Star("\\s")>>,
     <<Star("\\s")>> \o Lit(<<cyr_t, cyr_d, cyr_c>>) \o <<Star("\\s")>>,
     <<Star("\\s")>> \o Lit(<<cyr_c, cyr_e, cyr_n, cyr_t, cyr_r>>)
       \o <<Star("\\s")>>,
     <<Star("\\s")>>
       \o Lit(<<cyr_f, cyr_u, cyr_d, cyr_k, cyr_o, cyr_r, cyr_t>>)
       \o <<Star("\\s")>>,
     <<Star("\\s")>>
       \o Lit(<<cyr_t, cyr_o, cyr_r, cyr_g, cyr_o, cyr_v, cyr_y, cyr_j>>)
       \o <<Star("\\s")>>
       \o Lit(<<cyr_c, cyr_e, cyr_n, cyr_t, cyr_r>>)
       \o <<Star("\\s")>> >>

\* for suffix in suffixes_to_remove: normalized = re.sub(suffix, '', normalized)
RECURSIVE RemoveSuffixes(_, _)
RemoveSuffixes(s, n) ==
  IF n > Len(suffixes_to_remove) THEN s
  ELSE RemoveSuffixes(re_sub(suffixes_to_remove[n], <<>>, s), n + 1)

normalize_company_name(name) ==
  IF ~Truthy(name) \/ name = NOT_SPECIFIED THEN <<>>
  ELSE LET n1 == strip(lower(name))
           n2 == re_sub(<<Plus("\\s")>>, <<" ">>, n1)
           n3 == re_sub(<<One("[^\\w\\s]")>>, <<>>, n2)
           n4 == RemoveSuffixes(n3, 1)
           n5 == re_sub(<<[k |-> "lit", c |-> "("], Star("[^)]"),
                          [k |-> "lit", c |-> ")"]>>, <<>>, n4)
           n6 == re_sub(<<[k |-> "lit", c |-> ","], Star("."), EndAnchor>>,
                        <<>>, n5)
       IN strip(n6)

\* ----------------------------------------------------- addresses_similar

addresses_similar_joining(addr1, addr2) ==
  IF ~Truthy(addr1) \/ ~Truthy(addr2) THEN FALSE
  ELSE LET addr1_norm == re_sub(<<One("[^\\w\\s]")>>, <<>>, lower(addr1))
           addr2_norm == re_sub(<<One("[^\\w\\s]")>>, <<>>, lower(addr2))
           addr1_base == strip(re_sub(<<Plus("\\d")>>, <<>>, addr1_norm))
           addr2_base == strip(re_sub(<<Plus("\\d")>>, <<>>, addr2_norm))
           common_words == Range(split(addr1_base)) \cap Range(split(addr2_base))
           total_words == Range(split(addr1_base)) \cup Range(split(addr2_base))
       IN total_words # {}
            /\ 10 * Cardinality(common_words) > 7 * Cardinality(total_words)
addresses_similar(addr1, addr2) ==
  IF ~Truthy(addr1) \/ ~Truthy(addr2) THEN FALSE
  ELSE LET addr1_norm == re_sub(<<One("[^\\w\\s]")>>, <<" ">>, lower(addr1))
           addr2_norm == re_sub(<<One("[^\\w\\s]")>>, <<" ">>, lower(addr2))
           addr1_base == strip(re_sub(<<Plus("\\d")>>, <<>>, addr1_norm))
           addr2_base == strip(re_sub(<<Plus("\\d")>>, <<>>, addr2_norm))
           common_words == Range(split(addr1_base)) \cap Range(split(addr2_base))
           total_words == Range(split(addr1_base)) \cup Range(split(addr2_base))
       IN total_words # {}
            /\ 10 * Cardinality(common_words) > 7 * Cardinality(total_words)

\* ------------------------------------------------ the processed-company index
\* The operators take the two fields of the parser they read,
\* processed_companies (processed) and company_details (details).

\* lines 91-92: both keys longer than 3 characters and one inside the other
names_contained_one_way(normalized_name, existing_name) ==
  /\ Len(normalized_name) > 3 /\ Len(existing_name) > 3
  /\ IsSubstring(normalized_name, existing_name)
names_contained(normalized_name, existing_name) ==
  /\ Len(normalized_name) > 3 /\ Len(existing_name) > 3
  /\ (IsSubstring(normalized_name, existing_name)
        \/ IsSubstring(existing_name, normalized_name))

\* lines 94-99: the entry is passed over (continue) because its address differs
address_differs_unguarded(address, existing_name, details) ==
  /\ existing_name \in DOMAIN details
  /\ Truthy(details[existing_name].address)
  /\ ~addresses_similar(address, details[existing_name].address)
address_differs(address, existing_name, details) ==
  /\ Truthy(address)
  /\ existing_name \in DOMAIN details
  /\ Truthy(details[existing_name].address)
  /\ ~addresses_similar(address, details[existing_name].address)

\* lines 76-104.  The for loop returns True at the first entry that is not
\* passed over and False when there is none, whatever the order of the set.
is_company_already_processed(name, address, processed, details) ==
  LET normalized_name == normalize_company_name(name) IN
  IF normalized_name = <<>> THEN FALSE
  ELSE IF normalized_name \in processed THEN TRUE
  ELSE \E existing_name \in processed :
         /\ names_contained(normalized_name, existing_name)
         /\ ~address_differs(address, existing_name, details)

\* lines 128-140: the two fields after add_company_to_processed
add_company_to_processed_any_key(name, business_info, processed, details) ==
  LET normalized_name == normalize_company_name(name) IN
  [processed |-> processed \cup {normalized_name},
   details |->
     [key \in DOMAIN details \cup {normalized_name} |->
        IF key = normalized_name
        THEN [original_name |-> name,
              address |-> business_info.address,
              category |-> business_info.category,
              phone |-> business_info.phone,
              website |-> business_info.website]
        ELSE details[key]]]
add_company_to_processed(name, business_info, processed, details) ==
  LET normalized_name == normalize_company_name(name) IN
  IF normalized_name = <<>>
  THEN [processed |-> processed, details |-> details]
  ELSE [processed |-> processed \cup {normalized_name},
        details |->
          [key \in DOMAIN details \cup {normalized_name} |->
             IF key = normalized_name
             THEN [original_name |-> name,
                   address |-> business_info.address,
                   category |-> business_info.category,
                   phone |-> business_info.phone,
                   website |-> business_info.website]
             ELSE details[key]]]

\* ------------------------------------------------------------- the state

VARIABLES
  max_items_per_category, \* self.max_items_per_category
  results,                \* self.results: the emitted records, in order
  processed_companies,    \* self.processed_companies: the set of keys
  company_details,        \* self.company_details: key -> details
  pc,                     \* the position of the run
  category_index,         \* run: the loop index i, 1-based
  business_urls,          \* what get_business_links_pagination_fixed returned
  url_index,              \* parse_category: the loop index i, 1-based
  all_unique_links,       \* pagination locals, lines 268-272 and 282-286
  current_page,
  consecutive_failures,
  current_links,
  new_links,
  next_page_found,
  site_urls,              \* environment: how many distinct URLs the listing holds
  site_names,             \* environment: the names a detail page can show
  site_addresses,         \* environment: the addresses a detail page can show
  site_contacts,          \* environment: the contact fields a detail page can show
  site_script,            \* environment: the pages shown in turn, or <<>> for any
  browser,                \* self.browser is set (the browser was launched)
  page_log,               \* history: the pages of a scripted site processed so far
  collected,              \* history: every link a visited page yielded
  halt_reason,            \* history: which exit the pagination loop took
  max_collected_page,     \* history: the highest page links were collected from
  ever_failed,            \* history: some advance of this crawl failed
  raw_a, raw_b,           \* inputs of the pure functions
  key_a, key_b,           \* their outputs
  verdict_ab, verdict_ba,
  link,                   \* the argument of the two link decoders
  website,                \* what decode_2gis_website_link returned
  whatsapp,               \* what decode_2gis_link returned
  selector_outcomes,      \* what the page gives for each selector of a chain
  selector_text,          \* what extract_text_by_selectors returned
  controls,               \* the listing's pagination controls, in document order
  clicks,                 \* history: the clicks go_to_next_page_fixed attempted
  goto_log,               \* history: the URLs the search just made tried
  setup_failed,           \* history: setup_browser raised
  interrupted_at,         \* history: where an interrupt ended the run, or "none"
  save_attempted,         \* history: save_to_excel was called
  close_attempted,        \* history: self.browser.close() was called
  close_failed,           \* history: self.browser.close() raised
  stop_attempted          \* history: self.playwright.stop() was called

vars ==
  <<max_items_per_category, results, processed_companies, company_details,
    pc, category_index, business_urls, url_index, all_unique_links,
    current_page, consecutive_failures, current_links, new_links,
    next_page_found, site_urls, site_names, site_addresses, site_contacts,
    site_script, browser, page_log, collected, halt_reason, max_collected_page,
    ever_failed, raw_a, raw_b, key_a, key_b, verdict_ab, verdict_ba,
    link, website, whatsapp, selector_outcomes, selector_text, controls,
    clicks, goto_log,
    setup_failed, interrupted_at, save_attempted, close_attempted,
    close_failed, stop_attempted>>

parser_vars ==
  <<max_items_per_category, results, processed_companies, company_details>>

site_vars ==
  <<site_urls, site_names, site_addresses, site_contacts, site_script>>

run_vars == <<category_index, url_index, browser, page_log>>

pagination_vars ==
  <<all_unique_links, current_page, consecutive_failures, current_links,
    new_links, next_page_found, collected, halt_reason, max_collected_page,
    ever_failed>>

function_vars == <<raw_a, raw_b, key_a, key_b, verdict_ab, verdict_ba>>

pager_vars == <<controls, clicks>>

extractor_vars ==
  <<link, website, whatsapp, selector_outcomes, selector_text, pager_vars>>

exit_vars ==
  <<setup_failed, interrupted_at, save_attempted, close_attempted,
    close_failed, stop_attempted>>

\* No pure function has been called.
NoFunctionCall ==
  /\ raw_a = <<>> /\ raw_b = <<>> /\ key_a = <<>> /\ key_b = <<>>
  /\ verdict_ab = FALSE /\ verdict_ba = FALSE

\* No link has been decoded and no selector chain has been run.
NoExtraction ==
  /\ link = <<>> /\ website = None /\ whatsapp = None
  /\ selector_outcomes = <<>> /\ selector_text = None
  /\ controls = <<>> /\ clicks = <<>>

\* No search has been made, and run has not reached its except or finally.
NoExit ==
  /\ goto_log = <<>>
  /\ setup_failed = FALSE /\ interrupted_at = "none"
  /\ save_attempted = FALSE /\ close_attempted = FALSE
  /\ close_failed = FALSE /\ stop_attempted = FALSE

\* ---------------------------------------------------------------- bounds

\* The largest number of links one visit of a page adds to the set.
MaxNewPerPage == 2

\* The listing of the pagination specification holds this many URLs.
MaxSiteUrls == 52

\* list(set) is tried in the rotations by 0..MaxRotation of two base orders.
MaxRotation == 1

\* The small values of --max-items tried beside the default.
MaxSmallLimit == 3

\* ------------------------------------------- get_business_links_pagination_fixed

max_pages == 50
max_failures == 3

\* __init__'s default of max_items_per_category.
default_max_items == 100

Min(a, b) == IF a < b THEN a ELSE b

SetMax(S) == CHOOSE m \in S : \A y \in S : y <= m

\* list(S) of a set of str: every element once, in the iteration order of a
\* hash set, which the program does not control.  An order is named by a
\* pair <<turn, up>>: the order of discovery (up) or its reverse, rotated
\* left by turn places.  The orders tried are the first rotations of both
\* (every order, for a set of up to three links).
ListOrders(S) ==
  {<<turn, up>> :
     turn \in 0..(IF S = {} THEN 0 ELSE Min(Cardinality(S) - 1, MaxRotation)),
     up \in BOOLEAN}

\* The elements of a set of numbers, smallest first.
RECURSIVE Ascending(_)
Ascending(S) ==
  IF S = {} THEN <<>>
  ELSE LET least == CHOOSE y \in S : \A z \in S : y <= z
       IN <<least>> \o Ascending(S \ {least})

\* A sequence rotated left by order[1] places, after reversal unless order[2].
Arrange(q, order) ==
  [i \in 1..Len(q) |->
     IF order[2]
     THEN q[((i - 1 + order[1]) % Len(q)) + 1]
     ELSE q[Len(q) - ((i - 1 + order[1]) % Len(q))]]

ListOfSet(S, order) == Arrange(Ascending(S), order)

\* q[:limit]
TruncateNot(q, limit) == q
Truncate(q, limit) == SubSeq(q, 1, Min(limit, Len(q)))

\* What collect_links_from_current_page can return.  URLs are opaque to the
\* crawler, so they are named 1, 2, ... in the order of their discovery: a
\* page shows again the latest link seen before, or none of them, and up to
\* MaxNewPerPage new ones, while the listing has any left.
PageContents ==
  LET n == Cardinality(collected)
      reseen == {{}} \cup (IF collected = {} THEN {} ELSE {{SetMax(collected)}})
  IN {old \cup ((n + 1)..(n + k)) :
        old \in reseen, k \in {j \in 0..MaxNewPerPage : n + j <= site_urls}}

\* line 274, the condition of the while loop
loop_continues_uncapped(page, failures) == failures < max_failures
loop_continues(page, failures) == page <= max_pages /\ failures < max_failures

\* line 284, all_unique_links.update(current_links)
update(links, page_links) == links \cup page_links

\* line 291
limit_reached_strictly(new_count, limit) == new_count > limit
limit_reached(new_count, limit) == new_count >= limit

\* line 296
no_new_links_on_any_page(new, page) == new = 0
no_new_links_past_second_page(new, page) == new = 0 /\ page > 2
no_new_links(new, page) == new = 0 /\ page > 1

\* lines 303-307, the counter after an advance attempt
failures_after_never_reset(found, failures) ==
  IF found THEN failures ELSE failures + 1
failures_after(found, failures) == IF found THEN 0 ELSE failures + 1

\* lines 303-305, the page after an advance attempt
page_after(found, page) == IF found THEN page + 1 ELSE page

\* lines 264-272: the locals of a fresh call
PagStart ==
  /\ pc = "links"
  /\ pc' = "pag_loop"
  /\ all_unique_links' = {}
  /\ current_page' = 1
  /\ consecutive_failures' = 0
  /\ current_links' = {}
  /\ new_links' = 0
  /\ next_page_found' = FALSE
  /\ collected' = {}
  /\ halt_reason' = "none"
  /\ max_collected_page' = 0
  /\ ever_failed' = FALSE
  /\ business_urls' = <<>>
  /\ goto_log' = <<>>
  /\ UNCHANGED <<parser_vars, run_vars, site_vars, function_vars,
                 extractor_vars, exit_vars>>

\* lines 278-279 raise: the except of lines 319-321 returns []
PagScrollRaisesKeepsLinks ==
  /\ pc = "pag_loop"
  /\ loop_continues(current_page, consecutive_failures)
  /\ pc' = "pag_exit"
  /\ halt_reason' = "exception"
  /\ UNCHANGED <<parser_vars, run_vars, site_vars, function_vars,
                 extractor_vars, goto_log, exit_vars, business_urls,
                 all_unique_links, current_page, consecutive_failures,
                 current_links, new_links, next_page_found, collected,
                 max_collected_page, ever_failed>>
PagScrollRaises ==
  /\ pc = "pag_loop"
  /\ loop_continues(current_page, consecutive_failures)
  /\ pc' = "pag_returned"
  /\ halt_reason' = "exception"
  /\ business_urls' = <<>>
  /\ UNCHANGED <<parser_vars, run_vars, site_vars, function_vars, extractor_vars, goto_log, exit_vars,
                 all_unique_links, current_page, consecutive_failures,
                 current_links, new_links, next_page_found, collected,
                 max_collected_page, ever_failed>>

\* lines 274-298: the loop condition and, when it holds, one pass of the loop
\* body up to the advance; when it fails the loop is left
PagIterate ==
  /\ pc = "pag_loop"
  /\ IF loop_continues(current_page, consecutive_failures)
     THEN \E links \in PageContents :
            LET old_count == Cardinality(all_unique_links)
                merged == update(all_unique_links, links)
                new_count == Cardinality(merged)
            IN /\ current_links' = links
               /\ all_unique_links' = merged
               /\ new_links' = new_count - old_count
               /\ collected' = collected \cup links
               /\ max_collected_page' = current_page
               /\ IF limit_reached(new_count, max_items_per_category)
                  THEN pc' = "pag_exit" /\ halt_reason' = "limit"
                  ELSE IF no_new_links(new_count - old_count, current_page)
                       THEN pc' = "pag_exit" /\ halt_reason' = "no_new"
                       ELSE pc' = "pag_advance" /\ halt_reason' = halt_reason
     ELSE /\ pc' = "pag_exit"
          /\ halt_reason' =
               IF current_page > max_pages THEN "page_cap" ELSE "failures"
          /\ UNCHANGED <<all_unique_links, current_links, new_links, collected,
                         max_collected_page>>
  /\ UNCHANGED <<parser_vars, run_vars, site_vars, function_vars, extractor_vars, goto_log, exit_vars, business_urls,
                 current_page, consecutive_failures, next_page_found,
                 ever_failed>>

\* lines 301-312: go_to_next_page_fixed(current_page + 1) and the counters
PagAdvance ==
  /\ pc = "pag_advance"
  /\ \E found \in BOOLEAN :
       /\ next_page_found' = found
       /\ consecutive_failures' = failures_after(found, consecutive_failures)
       /\ current_page' = page_after(found, current_page)
       /\ ever_failed' = (ever_failed \/ ~found)
       /\ IF ~found /\ failures_after(found, consecutive_failures) >= max_failures
          THEN pc' = "pag_exit" /\ halt_reason' = "failures"
          ELSE pc' = "pag_loop" /\ halt_reason' = halt_reason
  /\ UNCHANGED <<parser_vars, run_vars, site_vars, function_vars, extractor_vars, goto_log, exit_vars, business_urls,
                 all_unique_links, current_links, new_links, collected,
                 max_collected_page>>

\* lines 314-317
PagReturn ==
  /\ pc = "pag_exit"
  /\ pc' = "pag_returned"
  /\ \E order \in ListOrders(all_unique_links) :
       business_urls' =
         Truncate(ListOfSet(all_unique_links, order), max_items_per_category)
  /\ UNCHANGED <<parser_vars, run_vars, site_vars, function_vars, extractor_vars, goto_log, exit_vars,
                 all_unique_links, current_page, consecutive_failures,
                 current_links, new_links, next_page_found, collected,
                 halt_reason, max_collected_page, ever_failed>>

\* The steps of the while loop of lines 274-312 (and the entry to it).
PagLoopStep ==
  \/ PagStart
  \/ PagScrollRaises
  \/ PagIterate
  \/ PagAdvance

NextPagination ==
  \/ PagLoopStep
  \/ PagReturn

\* ------------------------------------------------------ the detail pages

\* The names and addresses the detail pages of the modelled site show.
CoffeeHouseNo3 ==
  <<"C", "o", "f", "f", "e", "e", " ", "H", "o", "u", "s", "e", " ", numero, "3">>
CoffeeHouse ==
  <<"C", "o", "f", "f", "e", "e", " ", "H", "o", "u", "s", "e">>
NumeroFive == <<numero, " ", "5">>
MainSt12 == <<"M", "a", "i", "n", " ", "S", "t", " ", "1", "2">>
MainSt12A == <<"M", "a", "i", "n", " ", "S", "t", " ", "1", "2", "-", "A">>
SideSt45 == <<"S", "i", "d", "e", " ", "S", "t", " ", "4", "5">>


\* What extract_phone, extract_website, extract_whatsapp and extract_instagram
\* found on a page: each a str or None (an exception leaves None).
NoContacts ==
  [phone |-> None, website |-> None, whatsapp |-> None, instagram |-> None]
AllContacts ==
  [phone |-> <<"+", "7", "7", "0", "1">>,
   website |-> <<"a", ".", "k", "z">>,
   whatsapp |-> <<"w", "a", ".", "m", "e", "/", "7">>,
   instagram |-> <<"@", "a">>]

\* lines 491-496 and 511-538: each field is read in a try whose except leaves
\* the local as it was set before, None
found(outcome) == IF outcome = Raised THEN None ELSE outcome

found_contacts(contacts) == [f \in DOMAIN contacts |-> found(contacts[f])]

\* x or 'Не указано'
KeepAsFound(x) == x
OrNotSpecified(x) == IF Truthy(x) THEN x ELSE NOT_SPECIFIED

\* lines 540-549: the record, its keys in English ('Название' is name,
\* 'Есть сайт' is has_website with 'Да' written "Da" and 'Нет' written "Net")
business_record(name, address, contacts, category) ==
  [name |-> OrNotSpecified(name),
   address |-> OrNotSpecified(address),
   phone |-> OrNotSpecified(contacts.phone),
   website |-> OrNotSpecified(contacts.website),
   whatsapp |-> OrNotSpecified(contacts.whatsapp),
   instagram |-> OrNotSpecified(contacts.instagram),
   category |-> category,
   has_website |->
     IF Truthy(contacts.website) /\ contacts.website # NOT_SPECIFIED
     THEN "Da" ELSE "Net"]

\* lines 498-501 and 515-518: the page is dropped as a duplicate
is_duplicate_page(name, address, processed, details) ==
  \/ Truthy(name) /\ is_company_already_processed(name, None, processed, details)
  \/ /\ Truthy(name) /\ Truthy(address)
     /\ is_company_already_processed(name, address, processed, details)

\* lines 489-563 on a page that loaded, given what the extraction of each
\* field came to (a str, None or Raised): whether a record is returned, the
\* record, and the index after it.
extract_business_info_registers_all(name, address, contacts, category, processed, details) ==
  LET n == found(name)
      a == found(address)
      result == business_record(n, a, found_contacts(contacts), category)
      added == IF Truthy(n)
               THEN add_company_to_processed(n, result, processed, details)
               ELSE [processed |-> processed, details |-> details]
  IN [emitted |-> ~is_duplicate_page(n, a, processed, details),
      record |-> result,
      processed |-> added.processed, details |-> added.details]
extract_business_info(name, address, contacts, category, processed, details) ==
  LET n == found(name)
      a == found(address)
      result == business_record(n, a, found_contacts(contacts), category)
  IN IF is_duplicate_page(n, a, processed, details)
     THEN [emitted |-> FALSE, record |-> result,
           processed |-> processed, details |-> details]
     ELSE LET added ==
                IF Truthy(n)
                THEN add_company_to_processed(n, result, processed, details)
                ELSE [processed |-> processed, details |-> details]
          IN [emitted |-> TRUE, record |-> result,
              processed |-> added.processed, details |-> added.details]

\* lines 1296-1306 (and 1261-1265 of save_to_excel): the counts of the
\* summary, of the index and of results
get_deduplication_stats(processed, records) ==
  [unique_companies |-> Cardinality(processed),
   total_records |-> Len(records),
   duplicates_skipped |->
     IF Cardinality(processed) - Len(records) > 0
     THEN Cardinality(processed) - Len(records) ELSE 0,
   categories_processed |->
     Cardinality({records[i].category : i \in 1..Len(records)}),
   companies_with_websites |->
     Cardinality({i \in 1..Len(records) : records[i].has_website = "Da"})]

\* ---------------------------------------------------------------- the run

\* run(categories): the categories are opaque search terms, named 1, 2, ...
NumCategories == 2

\* The listing of a run holds this many URLs.
RunSiteUrls == 2

\* The values of --max-items of a run are 1..MaxRunLimit.
MaxRunLimit == 2

\* line 1363: setup_browser returns; a failure (lines 144-175) leaves the
\* browser launched or not and propagates through lines 1402-1404
SetupBrowser ==
  /\ pc = "start"
  /\ \/ browser' = TRUE /\ pc' = "category" /\ setup_failed' = setup_failed
     \/ \E launched \in BOOLEAN :
          browser' = launched /\ pc' = "finally_raised" /\ setup_failed' = TRUE
  /\ UNCHANGED <<parser_vars, category_index, url_index, page_log,
                 site_vars, business_urls, pagination_vars, function_vars,
                 extractor_vars, goto_log, interrupted_at, save_attempted,
                 close_attempted, close_failed, stop_attempted>>

\* The positions at which run is suspended in an await: setup_browser, the
\* page loads and queries of the crawl, the delays (line 1381: between two
\* categories, not after the last).
SuspensionPoints ==
  {"start", "search", "links", "pag_loop", "pag_advance", "detail"}
    \cup (IF category_index < NumCategories THEN {"category_done"} ELSE {})

\* An interrupt (asyncio.CancelledError, KeyboardInterrupt) is raised at the
\* await: no `except Exception` catches it and run goes to its finally, lines
\* 1406-1417.  (Where a bare `except:` of the crawl swallows it, the step it
\* hit fails and the run goes on: that is the failing step.)
Interrupt ==
  /\ pc \in SuspensionPoints
  /\ pc' = "finally_raised"
  /\ interrupted_at' = pc
  /\ IF pc = "start" THEN browser' \in BOOLEAN ELSE browser' = browser
  /\ UNCHANGED <<parser_vars, category_index, url_index, page_log,
                 site_vars, business_urls, pagination_vars, function_vars,
                 extractor_vars, goto_log, setup_failed, save_attempted,
                 close_attempted, close_failed, stop_attempted>>

\* line 1365: the for loop over the categories
NextCategory ==
  /\ pc = "category"
  /\ pc' = IF category_index <= NumCategories THEN "search" ELSE "save"
  /\ UNCHANGED <<parser_vars, run_vars, site_vars, business_urls,
                 pagination_vars, function_vars,
                 extractor_vars, goto_log, exit_vars>>

\* lines 189-193: urls_to_try holds this many URLs
NumFallbackUrls == 3

\* lines 196-206: the URLs page.goto is called on, given which of them load:
\* the list up to the first that loads, all of it when none does
urls_tried_without_break(loads) == NumFallbackUrls
urls_tried(loads) ==
  IF \E i \in 1..NumFallbackUrls : loads[i]
  THEN CHOOSE i \in 1..NumFallbackUrls :
         loads[i] /\ \A j \in 1..(i - 1) : ~loads[j]
  ELSE NumFallbackUrls

\* lines 1313-1315 with 187-259: open_2gis_and_search tries the fallback URLs
\* and returns False when none loads; with a page loaded it returns True
\* unless no search field is found or typing the query raises
OpenAndSearchRaises ==
  /\ pc = "search"
  /\ \E loads \in [1..NumFallbackUrls -> BOOLEAN], searched \in BOOLEAN :
       /\ goto_log' = [i \in 1..urls_tried(loads) |->
                         [url |-> i, loaded |-> loads[i]]]
       /\ pc' = IF (\E i \in 1..NumFallbackUrls : loads[i]) /\ searched
                THEN "links" ELSE "finally_raised"
  /\ UNCHANGED <<parser_vars, run_vars, site_vars, business_urls,
                 pagination_vars, function_vars,
                 extractor_vars, exit_vars>>
OpenAndSearch ==
  /\ pc = "search"
  /\ \E loads \in [1..NumFallbackUrls -> BOOLEAN], searched \in BOOLEAN :
       /\ goto_log' = [i \in 1..urls_tried(loads) |->
                         [url |-> i, loaded |-> loads[i]]]
       /\ pc' = IF (\E i \in 1..NumFallbackUrls : loads[i]) /\ searched
                THEN "links" ELSE "category_done"
  /\ UNCHANGED <<parser_vars, run_vars, site_vars, business_urls,
                 pagination_vars, function_vars,
                 extractor_vars, exit_vars>>

\* lines 1318-1328: no links ends the category; the locals of the pagination
\* call are gone
ParseLinks ==
  /\ pc = "pag_returned"
  /\ pc' = IF business_urls = <<>> THEN "category_done" ELSE "detail"
  /\ url_index' = 1
  /\ all_unique_links' = {}
  /\ current_page' = 1
  /\ consecutive_failures' = 0
  /\ current_links' = {}
  /\ new_links' = 0
  /\ next_page_found' = FALSE
  /\ collected' = {}
  /\ halt_reason' = "none"
  /\ max_collected_page' = 0
  /\ ever_failed' = FALSE
  /\ UNCHANGED <<parser_vars, category_index, browser, page_log, site_vars, business_urls, function_vars,
                 extractor_vars, goto_log, exit_vars>>

\* The loop of lines 1330-1348 moves to the next URL, or the category ends.
AfterUrl ==
  /\ url_index' = url_index + 1
  /\ pc' = IF url_index >= Len(business_urls) THEN "category_done" ELSE "detail"

\* lines 1334-1341 with 484-487 raising: extract_business_info returns None
DetailPageFails ==
  /\ pc = "detail"
  /\ AfterUrl
  /\ UNCHANGED <<parser_vars, category_index, browser, page_log, site_vars,
                 business_urls, pagination_vars, function_vars,
                 extractor_vars, goto_log, exit_vars>>

\* The <<name, address>> the selectors can give on the page being loaded: any
\* the site has, or the next of the script of a scripted site.
PageChoices ==
  IF site_script = <<>> THEN site_names \X site_addresses
  ELSE {site_script[(Len(page_log) % Len(site_script)) + 1]}

\* lines 1334-1341 with 489-563: a detail page is extracted and, unless it is
\* dropped as a duplicate, appended to results
ExtractBusinessInfo ==
  /\ pc = "detail"
  /\ AfterUrl
  /\ \E page \in PageChoices, contacts \in site_contacts :
       \E business_info \in
            {extract_business_info(page[1], page[2], contacts, category_index,
                                   processed_companies, company_details)} :
          /\ results' = IF business_info.emitted
                        THEN Append(results, business_info.record)
                        ELSE results
          /\ processed_companies' = business_info.processed
          /\ company_details' = business_info.details
          /\ page_log' = IF site_script = <<>> THEN page_log
                         ELSE Append(page_log, [name |-> page[1],
                                                address |-> page[2],
                                                category |-> category_index,
                                                kept |-> business_info.emitted])
  /\ UNCHANGED <<max_items_per_category, category_index, browser, site_vars,
                 business_urls, pagination_vars, function_vars,
                 extractor_vars, goto_log, exit_vars>>

\* lines 1372-1381: the statistics are logged and the loop goes on
CategoryDoneClearsIndex ==
  /\ pc = "category_done"
  /\ pc' = "category"
  /\ category_index' = category_index + 1
  /\ business_urls' = <<>>
  /\ url_index' = 1
  /\ goto_log' = <<>>
  /\ processed_companies' = {}
  /\ company_details' = <<>>
  /\ UNCHANGED <<max_items_per_category, results, browser, page_log,
                 site_vars, pagination_vars, function_vars,
                 extractor_vars, exit_vars>>
CategoryDone ==
  /\ pc = "category_done"
  /\ pc' = "category"
  /\ category_index' = category_index + 1
  /\ business_urls' = <<>>
  /\ url_index' = 1
  /\ goto_log' = <<>>
  /\ UNCHANGED <<parser_vars, browser, page_log, site_vars,
                 pagination_vars, function_vars,
                 extractor_vars, exit_vars>>

\* lines 1383-1400: save_to_excel catches its own failures
SaveToExcel ==
  /\ pc = "save"
  /\ pc' = "finally_returning"
  /\ save_attempted' = TRUE
  /\ UNCHANGED <<parser_vars, run_vars, site_vars, business_urls,
                 pagination_vars, function_vars,
                 extractor_vars, goto_log, setup_failed, interrupted_at,
                 close_attempted, close_failed, stop_attempted>>

\* lines 1406-1412: with self.browser set, self.browser.close() is awaited
\* and whatever it raises is passed over
FinallyCloseUnguarded ==
  /\ pc \in {"finally_returning", "finally_raised"}
  /\ close_attempted' = browser
  /\ \E raised \in {FALSE, browser} :
       /\ close_failed' = raised
       /\ pc' = IF raised THEN "raised"
                ELSE IF pc = "finally_raised" THEN "stop_raised"
                ELSE "stop_returning"
  /\ UNCHANGED <<parser_vars, run_vars, site_vars, business_urls,
                 pagination_vars, function_vars,
                 extractor_vars, goto_log, setup_failed, interrupted_at,
                 save_attempted, stop_attempted>>
FinallyClose ==
  /\ pc \in {"finally_returning", "finally_raised"}
  /\ pc' = IF pc = "finally_raised" THEN "stop_raised" ELSE "stop_returning"
  /\ close_attempted' = browser
  /\ \E raised \in {FALSE, browser} : close_failed' = raised
  /\ UNCHANGED <<parser_vars, run_vars, site_vars, business_urls,
                 pagination_vars, function_vars,
                 extractor_vars, goto_log, setup_failed, interrupted_at,
                 save_attempted, stop_attempted>>

\* lines 1413-1417: self.playwright.stop() is awaited (the attribute is there
\* since line 30) and whatever it raises is passed over; run then returns,
\* or the exception that brought it to the finally propagates
FinallyStop ==
  /\ pc \in {"stop_returning", "stop_raised"}
  /\ pc' = IF pc = "stop_raised" THEN "raised" ELSE "returned"
  /\ stop_attempted' = TRUE
  /\ UNCHANGED <<parser_vars, run_vars, site_vars, business_urls,
                 pagination_vars, function_vars,
                 extractor_vars, goto_log, setup_failed, interrupted_at,
                 save_attempted, close_attempted, close_failed>>

\* lines 1406-1417
Finally ==
  \/ FinallyClose
  \/ FinallyStop

Next ==
  \/ SetupBrowser
  \/ Interrupt
  \/ NextCategory
  \/ OpenAndSearch
  \/ PagLoopStep
  \/ PagReturn
  \/ ParseLinks
  \/ DetailPageFails
  \/ ExtractBusinessInfo
  \/ CategoryDone
  \/ SaveToExcel
  \/ Finally

\* lines 24-34: a fresh parser, about to run
Init ==
  /\ max_items_per_category \in 1..MaxRunLimit
  /\ results = <<>>
  /\ processed_companies = {}
  /\ company_details = <<>>
  /\ pc = "start"
  /\ category_index = 1
  /\ business_urls = <<>>
  /\ url_index = 1
  /\ all_unique_links = {}
  /\ current_page = 1
  /\ consecutive_failures = 0
  /\ current_links = {}
  /\ new_links = 0
  /\ next_page_found = FALSE
  /\ site_urls = RunSiteUrls
  /\ site_names = {CoffeeHouseNo3, CoffeeHouse, NumeroFive, None}
  /\ site_addresses = {MainSt12, SideSt45, None}
  /\ site_contacts = {NoContacts}
  /\ site_script = <<>>
  /\ browser = FALSE
  /\ page_log = <<>>
  /\ collected = {}
  /\ halt_reason = "none"
  /\ max_collected_page = 0
  /\ ever_failed = FALSE
  /\ raw_a = <<>> /\ raw_b = <<>> /\ key_a = <<>> /\ key_b = <<>>
  /\ verdict_ab = FALSE /\ verdict_ba = FALSE
  /\ NoExtraction
  /\ NoExit

Spec == Init /\ [][Next]_vars

\* A fresh parser (lines 24-34) about to call
\* get_business_links_pagination_fixed on a listing of MaxSiteUrls URLs.
InitPagination ==
  /\ max_items_per_category \in (1..MaxSmallLimit) \cup {default_max_items}
  /\ results = <<>>
  /\ processed_companies = {}
  /\ company_details = <<>>
  /\ pc = "links"
  /\ category_index = 1
  /\ business_urls = <<>>
  /\ url_index = 1
  /\ all_unique_links = {}
  /\ current_page = 1
  /\ consecutive_failures = 0
  /\ current_links = {}
  /\ new_links = 0
  /\ next_page_found = FALSE
  /\ site_urls = MaxSiteUrls
  /\ site_names = {None}
  /\ site_addresses = {None}
  /\ site_contacts = {NoContacts}
  /\ site_script = <<>>
  /\ browser = TRUE
  /\ page_log = <<>>
  /\ collected = {}
  /\ halt_reason = "none"
  /\ max_collected_page = 0
  /\ ever_failed = FALSE
  /\ raw_a = <<>> /\ raw_b = <<>> /\ key_a = <<>> /\ key_b = <<>>
  /\ verdict_ab = FALSE /\ verdict_ba = FALSE
  /\ NoExtraction
  /\ NoExit

SpecPagination == InitPagination /\ [][NextPagination]_vars

\* Every call of the page-driving collaborator returns: a step of the loop
\* that can be taken is taken.
SpecPaginationFair == SpecPagination /\ WF_vars(PagLoopStep)

\* ------------------------------------------------------ the scripted run

\* A run on a site whose detail pages show, in the order they are loaded,
\* "Coffee House No3" at "Main St 12", "Coffee House" at "Main St 12-A" and
\* "Coffee House" at "Side St 45" (No being the numero sign).
InitScenario ==
  /\ max_items_per_category \in 1..MaxRunLimit
  /\ results = <<>>
  /\ processed_companies = {}
  /\ company_details = <<>>
  /\ pc = "start"
  /\ category_index = 1
  /\ business_urls = <<>>
  /\ url_index = 1
  /\ all_unique_links = {}
  /\ current_page = 1
  /\ consecutive_failures = 0
  /\ current_links = {}
  /\ new_links = 0
  /\ next_page_found = FALSE
  /\ site_urls = RunSiteUrls
  /\ site_names = {CoffeeHouseNo3, CoffeeHouse}
  /\ site_addresses = {MainSt12, MainSt12A, SideSt45}
  /\ site_contacts = {NoContacts, AllContacts}
  /\ site_script = <<<<CoffeeHouseNo3, MainSt12>>, <<CoffeeHouse, MainSt12A>>,
                     <<CoffeeHouse, SideSt45>>>>
  /\ browser = FALSE
  /\ page_log = <<>>
  /\ collected = {}
  /\ halt_reason = "none"
  /\ max_collected_page = 0
  /\ ever_failed = FALSE
  /\ raw_a = <<>> /\ raw_b = <<>> /\ key_a = <<>> /\ key_b = <<>>
  /\ verdict_ab = FALSE /\ verdict_ba = FALSE
  /\ NoExtraction
  /\ NoExit

SpecScenario == InitScenario /\ [][Next]_vars

\* Every call run awaits returns or raises: a step run can take is taken.
SpecScenarioFair == SpecScenario /\ WF_vars(Next)

\* ------------------------------------------------- the functions on names

\* The strings of at most n characters of an alphabet.
Strings(alphabet, n) == UNION {[1..k -> alphabet] : k \in 0..n}

\* The names given to normalize_company_name have at most MaxNameLen
\* characters of NameAlphabet (or are 'Не указано').
MaxNameLen == 4
NameAlphabet == {"a", "A", "1", " ", cyr_t, cyr_c}

\* The names whose keys are compared have at most MaxKeyLen characters of
\* KeyAlphabet.
MaxKeyLen == 5
KeyAlphabet == {"a", "b"}

\* No run is under way: a fresh parser (lines 24-34) whose methods are called
\* one at a time.
NoRun ==
  /\ results = <<>>
  /\ processed_companies = {}
  /\ company_details = <<>>
  /\ category_index = 1
  /\ business_urls = <<>>
  /\ url_index = 1
  /\ all_unique_links = {}
  /\ current_page = 1
  /\ consecutive_failures = 0
  /\ current_links = {}
  /\ new_links = 0
  /\ next_page_found = FALSE
  /\ site_urls = 0
  /\ site_names = {None}
  /\ site_addresses = {None}
  /\ site_contacts = {NoContacts}
  /\ site_script = <<>>
  /\ browser = FALSE
  /\ page_log = <<>>
  /\ collected = {}
  /\ halt_reason = "none"
  /\ max_collected_page = 0
  /\ ever_failed = FALSE
  /\ NoExit

run_state ==
  <<parser_vars, run_vars, site_vars, business_urls, pagination_vars,
    goto_log, exit_vars>>

\* key = normalize_company_name(name)
NormalizeOnce ==
  /\ pc = "fn_start"
  /\ pc' = "fn_once"
  /\ key_a' = normalize_company_name(raw_a)
  /\ UNCHANGED <<run_state, extractor_vars, raw_a, raw_b, key_b, verdict_ab,
                 verdict_ba>>

\* normalize_company_name(key), of the key normalize_company_name returned
NormalizeTwice ==
  /\ pc = "fn_once"
  /\ pc' = "fn_twice"
  /\ key_b' = normalize_company_name(key_a)
  /\ UNCHANGED <<run_state, extractor_vars, raw_a, raw_b, key_a, verdict_ab,
                 verdict_ba>>

NextNormalize ==
  \/ NormalizeOnce
  \/ NormalizeTwice

InitNormalize ==
  /\ NoRun
  /\ max_items_per_category = default_max_items
  /\ pc = "fn_start"
  /\ raw_a \in Strings(NameAlphabet, MaxNameLen) \cup {NOT_SPECIFIED}
  /\ raw_b = <<>> /\ key_a = <<>> /\ key_b = <<>>
  /\ verdict_ab = FALSE /\ verdict_ba = FALSE
  /\ NoExtraction

SpecNormalize == InitNormalize /\ [][NextNormalize]_vars

\* The index of a fresh parser after add_company_to_processed(name, info),
\* info a record of that name with no address found.
index_of(name) ==
  add_company_to_processed(
    name, business_record(name, None, NoContacts, 1), {}, <<>>)

\* is_company_already_processed(name) on the index that holds the other name
judged(name, other) ==
  is_company_already_processed(
    name, None, index_of(other).processed, index_of(other).details)

\* Two names are judged against each other, each on a parser whose index
\* holds the other.
JudgeKeys ==
  /\ pc = "fn_start"
  /\ pc' = "fn_judged"
  /\ key_a' = normalize_company_name(raw_a)
  /\ key_b' = normalize_company_name(raw_b)
  /\ verdict_ab' = judged(raw_a, raw_b)
  /\ verdict_ba' = judged(raw_b, raw_a)
  /\ UNCHANGED <<run_state, extractor_vars, raw_a, raw_b>>

NextKeys == JudgeKeys

InitKeys ==
  /\ NoRun
  /\ max_items_per_category = default_max_items
  /\ pc = "fn_start"
  /\ raw_a \in Strings(KeyAlphabet, MaxKeyLen)
  /\ raw_b \in Strings(KeyAlphabet, MaxKeyLen)
  /\ key_a = <<>> /\ key_b = <<>>
  /\ verdict_ab = FALSE /\ verdict_ba = FALSE
  /\ NoExtraction

SpecKeys == InitKeys /\ [][NextKeys]_vars

\* ------------------------------------------------------ one detail page

\* What the extraction of a contact field can come to: a value, None, or an
\* exception; extract_website can also give '' or the placeholder.
FieldOutcomes(value) == {value, None, Raised}

\* A parser in parse_category about to load the only URL of a category, on a
\* site whose pages show any mix of fields found, missing and failing.
InitFields ==
  /\ max_items_per_category \in 1..MaxRunLimit
  /\ results = <<>>
  /\ processed_companies = {}
  /\ company_details = <<>>
  /\ pc = "detail"
  /\ category_index = 1
  /\ business_urls = <<1>>
  /\ url_index = 1
  /\ all_unique_links = {}
  /\ current_page = 1
  /\ consecutive_failures = 0
  /\ current_links = {}
  /\ new_links = 0
  /\ next_page_found = FALSE
  /\ site_urls = 1
  /\ site_names = {CoffeeHouseNo3, CoffeeHouse, None, Raised}
  /\ site_addresses = FieldOutcomes(MainSt12)
  /\ site_contacts =
       [phone : FieldOutcomes(AllContacts.phone),
        website : FieldOutcomes(AllContacts.website) \cup {<<>>, NOT_SPECIFIED},
        whatsapp : FieldOutcomes(AllContacts.whatsapp),
        instagram : FieldOutcomes(AllContacts.instagram)]
  /\ site_script = <<>>
  /\ browser = TRUE
  /\ page_log = <<>>
  /\ collected = {}
  /\ halt_reason = "none"
  /\ max_collected_page = 0
  /\ ever_failed = FALSE
  /\ NoFunctionCall
  /\ NoExtraction
  /\ NoExit

NextFields ==
  \/ ExtractBusinessInfo
  \/ DetailPageFails

SpecFields == InitFields /\ [][NextFields]_vars

\* ------------------------------------------------ the addresses compared

\* An address names at most MaxAddressWords of the words a, b, c, ...
MaxAddressWords == 5

\* How an address writes its words: "a b", "a1, b2", "A-B" or "12 a b".
AddressStyles == {"plain", "numbered", "upper", "house"}

\* The words of W from the i-th on, written in a style.
RECURSIVE WriteWords(_, _, _)
WriteWords(W, i, style) ==
  IF i > MaxAddressWords THEN <<>>
  ELSE IF i \notin W THEN WriteWords(W, i + 1, style)
  ELSE LET rest == WriteWords(W, i + 1, style)
           last == rest = <<>>
       IN CASE style = "numbered" ->
                 <<AsciiLower[i], "7">>
                   \o (IF last THEN <<>> ELSE <<",", " ">>) \o rest
            [] style = "upper" ->
                 <<AsciiUpper[i]>> \o (IF last THEN <<>> ELSE <<"-">>) \o rest
            [] OTHER ->
                 <<AsciiLower[i]>> \o (IF last THEN <<>> ELSE <<" ">>) \o rest

\* The addresses given to addresses_similar: None, '', and every set of
\* words in every style.
Addresses ==
  {None, <<>>}
    \cup {(IF style = "house" THEN <<"1", "2", " ">> ELSE <<>>)
            \o WriteWords(W, 1, style) :
          W \in SUBSET (1..MaxAddressWords), style \in AddressStyles}

\* similar = addresses_similar(addr1, addr2), both ways round
CompareAddresses ==
  /\ pc = "fn_start"
  /\ pc' = "fn_compared"
  /\ verdict_ab' = addresses_similar(raw_a, raw_b)
  /\ verdict_ba' = addresses_similar(raw_b, raw_a)
  /\ UNCHANGED <<run_state, extractor_vars, raw_a, raw_b, key_a, key_b>>

NextAddresses == CompareAddresses

InitAddresses ==
  /\ NoRun
  /\ NoExtraction
  /\ max_items_per_category = default_max_items
  /\ pc = "fn_start"
  /\ raw_a \in Addresses
  /\ raw_b \in Addresses
  /\ key_a = <<>> /\ key_b = <<>>
  /\ verdict_ab = FALSE /\ verdict_ba = FALSE

SpecAddresses == InitAddresses /\ [][NextAddresses]_vars

\* ------------------------------------------------- the selector chain

\* A chain has at most MaxSelectors selectors.
MaxSelectors == 3

\* What the page gives for the i-th selector of a chain: query_selector
\* raises, finds no element, or finds one, whose text_content raises, is
\* None, is blank, or is a text (here with spaces around it).
SelectorOutcomes(i) ==
  {[element |-> "raises", text |-> None], [element |-> "none", text |-> None]}
    \cup {[element |-> "found", text |-> t] :
            t \in {Raised, None, <<" ">>, <<" ", AsciiLower[i], " ">>}}

\* lines 573-577: the text the selector gives the chain, or None
selector_text_of(outcome) ==
  IF /\ outcome.element = "found"
     /\ outcome.text # Raised
     /\ Truthy(outcome.text)
     /\ strip(outcome.text) # <<>>
  THEN strip(outcome.text)
  ELSE None

\* lines 578-579: `except: continue`, the chain goes on after any selector
stops_at_exception(outcome) ==
  outcome.element # "raises" /\ outcome.text # Raised
goes_on_after(outcome) == TRUE

\* lines 571-580, from the i-th selector on
RECURSIVE ChainFrom(_, _)
ChainFrom(outcomes, i) ==
  IF i > Len(outcomes) THEN None
  ELSE IF selector_text_of(outcomes[i]) # None
       THEN selector_text_of(outcomes[i])
       ELSE IF goes_on_after(outcomes[i])
            THEN ChainFrom(outcomes, i + 1)
            ELSE None

extract_text_by_selectors(outcomes) == ChainFrom(outcomes, 1)

ExtractText ==
  /\ pc = "fn_start"
  /\ pc' = "fn_chain_done"
  /\ selector_text' = extract_text_by_selectors(selector_outcomes)
  /\ UNCHANGED <<run_state, function_vars, link, website, whatsapp,
                 selector_outcomes, pager_vars>>

NextSelectors == ExtractText

InitSelectors ==
  /\ NoRun
  /\ NoFunctionCall
  /\ max_items_per_category = default_max_items
  /\ pc = "fn_start"
  /\ link = <<>> /\ website = None /\ whatsapp = None
  /\ controls = <<>> /\ clicks = <<>>
  /\ selector_outcomes \in
       {f \in [1..MaxSelectors ->
                 UNION {SelectorOutcomes(i) : i \in 1..MaxSelectors}] :
          \A i \in 1..MaxSelectors : f[i] \in SelectorOutcomes(i)}
  /\ selector_text = None

SpecSelectors == InitSelectors /\ [][NextSelectors]_vars

\* --------------------------------------------------------- the link decoders

\* The base64 alphabet: the value of a character is its index less one.
Base64Alphabet ==
  AsciiUpper \o AsciiLower
    \o <<"0", "1", "2", "3", "4", "5", "6", "7", "8", "9", "+", "/">>

Base64Value(ch) == (CHOOSE i \in 1..64 : Base64Alphabet[i] = ch) - 1

\* binascii.Error, where bytes (numbers 0..255) were expected.
RaisedBytes == <<-1>>

\* base64.b64decode(s) (binascii.a2b_base64, not strict): the bytes, or
\* RaisedBytes.  Characters outside the alphabet are skipped; a "=" ends
\* the data once it completes a quad that holds two characters or more; data
\* that ends inside a quad is an error.
RECURSIVE a2b_base64(_, _, _, _, _, _)
a2b_base64(s, i, quad_pos, pads, leftchar, out) ==
  IF i > Len(s)
  THEN IF quad_pos # 0 THEN RaisedBytes ELSE out
  ELSE IF s[i] = "="
       THEN IF quad_pos >= 2 /\ quad_pos + pads + 1 >= 4
            THEN out
            ELSE a2b_base64(s, i + 1, quad_pos,
                            IF quad_pos >= 2 THEN pads + 1 ELSE pads,
                            leftchar, out)
       ELSE IF s[i] \notin Range(Base64Alphabet)
            THEN a2b_base64(s, i + 1, quad_pos, pads, leftchar, out)
            ELSE LET v == Base64Value(s[i]) IN
              CASE quad_pos = 0 -> a2b_base64(s, i + 1, 1, 0, v, out)
                [] quad_pos = 1 ->
                     a2b_base64(s, i + 1, 2, 0, v % 16,
                                Append(out, leftchar * 4 + v \div 16))
                [] quad_pos = 2 ->
                     a2b_base64(s, i + 1, 3, 0, v % 4,
                                Append(out, leftchar * 16 + v \div 4))
                [] quad_pos = 3 ->
                     a2b_base64(s, i + 1, 0, 0, 0,
                                Append(out, leftchar * 64 + v))

b64decode(s) == a2b_base64(s, 1, 0, 0, 0, <<>>)

\* The ASCII characters 32..126, in code order (the grave accent by its code
\* point).
AsciiPrintable ==
  <<" ", "!", "\"", "#", "$", "%", "&", "'", "(", ")", "*", "+", ",", "-",
    ".", "/", "0", "1", "2", "3", "4", "5", "6", "7", "8", "9", ":", ";",
    "<", "=", ">", "?", "@">>
    \o AsciiUpper \o <<"[", "\\", "]", "^", "_", "U+0060">>
    \o AsciiLower \o <<"{", "|", "}", "~">>

\* The ASCII control characters 0..31, in code order.
AsciiControl ==
  <<"U+0000", "U+0001", "U+0002", "U+0003", "U+0004", "U+0005", "U+0006",
    "U+0007", "U+0008", "\t", "\n", "U+000B", "U+000C", "U+000D", "U+000E",
    "U+000F", "U+0010", "U+0011", "U+0012", "U+0013", "U+0014", "U+0015",
    "U+0016", "U+0017", "U+0018", "U+0019", "U+001A", "U+001B", "U+001C",
    "U+001D", "U+001E", "U+001F">>

chr(b) ==
  IF b < 32 THEN AsciiControl[b + 1]
  ELSE IF b < 127 THEN AsciiPrintable[b - 31] ELSE "U+007F"

\* bytes.decode('utf-8'): the text, or Raised (UnicodeDecodeError).  A byte
\* below 128 is its ASCII character.  The multi-byte sequences are left out:
\* of the bytes from 128 up the payloads of the model hold only 0xFF, which
\* is valid nowhere in UTF-8.
utf8_decode(bytes) ==
  IF \E i \in 1..Len(bytes) : bytes[i] >= 128
  THEN Raised
  ELSE [i \in 1..Len(bytes) |-> chr(bytes[i])]

\* s.split(sep)[-1] for a one-character sep: the text after the last sep.
RECURSIVE last_part(_, _)
last_part(s, sep) ==
  IF \E i \in 1..Len(s) : s[i] = sep
  THEN last_part(SubSeq(s, (CHOOSE i \in 1..Len(s) : s[i] = sep) + 1, Len(s)), sep)
  ELSE s

\* s.split(sep)[0] for a one-character sep: the text before the first sep.
first_part(s, sep) ==
  IF \E i \in 1..Len(s) : s[i] = sep
  THEN SubSeq(s, 1, (CHOOSE i \in 1..Len(s) :
                       s[i] = sep /\ \A j \in 1..(i - 1) : s[j] # sep) - 1)
  ELSE s

startswith(s, prefix) ==
  Len(s) >= Len(prefix) /\ SubSeq(s, 1, Len(prefix)) = prefix

\* str.isdigit()
isdigit(s) == s # <<>> /\ \A i \in 1..Len(s) : s[i] \in Digits

redirect_host ==
  <<"l", "i", "n", "k", ".", "2", "g", "i", "s", ".", "c", "o", "m">>

\* Any link passes for one of the redirect service.
any_host_is_redirect(href) == TRUE

\* 'link.2gis.com' in link
is_redirect_link(href) == IsSubstring(redirect_host, href)

\* The trailing path segment of the link, its query and fragment cut off (None
\* when the link holds no "/").
encoded_part(href) ==
  IF \A i \in 1..Len(href) : href[i] # "/"
  THEN None
  ELSE first_part(first_part(last_part(href, "/"), "?"), "#")

\* Only the unpadded payload is tried.
paddings_unpadded_only == << <<>> >>

paddings == << <<>>, <<"=">>, <<"=", "=">>, <<"=", "=", "=">> >>

\* decoded_string of one padding variant, or Raised (either decoding step).
decoded_string(encoded, padding) ==
  LET decoded_bytes == b64decode(encoded \o padding) IN
  IF decoded_bytes = RaisedBytes THEN Raised ELSE utf8_decode(decoded_bytes)

http_scheme == <<"h", "t", "t", "p">>
https_prefix == <<"h", "t", "t", "p", "s", ":", "/", "/">>

\* (?:kz|com|ru|org|net|biz|cafe|coffee)
allowed_tlds ==
  << <<"k", "z">>, <<"c", "o", "m">>, <<"r", "u">>, <<"o", "r", "g">>,
     <<"n", "e", "t">>, <<"b", "i", "z">>, <<"c", "a", "f", "e">>,
     <<"c", "o", "f", "f", "e", "e">> >>

\* ([a-zA-Z0-9][-a-zA-Z0-9]*\.(?:...)(?:/[^\s]*)?)
domain_group ==
  <<One("[a-zA-Z0-9]"), Star("[-a-zA-Z0-9]")>> \o Lit(<<".">>)
    \o <<Alt(allowed_tlds), Opt(Lit(<<"/">>) \o <<Star("[^\\s]")>>)>>

\* The prefix of each url pattern, before its group: https?://, http://, none.
url_prefixes ==
  << Lit(http_scheme) \o <<Opt(Lit(<<"s">>))>> \o Lit(<<":", "/", "/">>),
     Lit(http_scheme) \o Lit(<<":", "/", "/">>),
     <<>> >>

bad_hosts ==
  { <<"2", "g", "i", "s">>, <<"s", "b", "e", "r", "b", "a", "n", "k">>,
    <<"y", "a", "n", "d", "e", "x">>, <<"g", "o", "o", "g", "l", "e">> }

min_domain_len == 6

\* A match qualifies: no service host in it, and longer than six characters.
qualifies(domain) ==
  /\ ~ \E bad \in bad_hosts : IsSubstring(bad, lower(domain))
  /\ Len(domain) > min_domain_len

\* The matches of the url patterns in the text, pattern by pattern, in the
\* order the two loops visit them.
url_matches(text) ==
  re_findall(url_prefixes[1], domain_group, text)
    \o re_findall(url_prefixes[2], domain_group, text)
    \o re_findall(url_prefixes[3], domain_group, text)

\* The result of the first qualifying match, None when there is none.
RECURSIVE first_site(_, _)
first_site(matches, i) ==
  IF i > Len(matches) THEN None
  ELSE IF qualifies(matches[i])
       THEN IF startswith(matches[i], http_scheme)
            THEN matches[i]
            ELSE https_prefix \o matches[i]
       ELSE first_site(matches, i + 1)

\* The loop over the paddings: a variant that fails to decode is skipped, the
\* first that decodes is searched and ends the loop.
RECURSIVE website_from_paddings(_, _)
website_from_paddings(encoded, p) ==
  IF p > Len(paddings) THEN None
  ELSE LET text == decoded_string(encoded, paddings[p]) IN
       IF text = Raised
       THEN website_from_paddings(encoded, p + 1)
       ELSE first_site(url_matches(text), 1)

decode_2gis_website_link(href) ==
  IF ~ is_redirect_link(href) THEN None
  ELSE IF encoded_part(href) = None THEN None
       ELSE website_from_paddings(encoded_part(href), 1)

wa_me == <<"w", "a", ".", "m", "e", "/">>
wa_send ==
  <<"w", "h", "a", "t", "s", "a", "p", "p", ":", "/", "/", "s", "e", "n", "d",
    "?", "p", "h", "o", "n", "e", "=">>

\* The matches of the wa patterns in the text (compiled without a flag):
\* (https://wa\.me/[^\s%"\']+), wa\.me/(\d+), whatsapp://send\?phone=(\d+).
wa_matches(text) ==
  re_findall(<<>>, Exact(https_prefix \o wa_me) \o <<Plus("[^\\s%\"']")>>, text)
    \o re_findall(Exact(wa_me), <<Plus("\\d")>>, text)
    \o re_findall(Exact(wa_send), <<Plus("\\d")>>, text)

\* The result of the first match that is a link or a number (unquote changes
\* nothing: the first pattern admits no "%").
RECURSIVE first_wa_url(_, _)
first_wa_url(matches, i) ==
  IF i > Len(matches) THEN None
  ELSE IF startswith(matches[i], https_prefix)
       THEN matches[i]
       ELSE IF isdigit(matches[i])
            THEN https_prefix \o wa_me \o matches[i]
            ELSE first_wa_url(matches, i + 1)

RECURSIVE wa_from_paddings(_, _)
wa_from_paddings(encoded, p) ==
  IF p > Len(paddings) THEN None
  ELSE LET text == decoded_string(encoded, paddings[p]) IN
       IF text = Raised
       THEN wa_from_paddings(encoded, p + 1)
       ELSE first_wa_url(wa_matches(text), 1)

decode_2gis_link(href) ==
  IF ~ is_redirect_link(href) THEN None
  ELSE IF encoded_part(href) = None THEN None
       ELSE wa_from_paddings(encoded_part(href), 1)

\* The payloads of the redirect links the pages hold, whole and padded.
Payloads ==
  {
    \* base64 of 'http://abcd.kz' (a site with its scheme)
    <<"a", "H", "R", "0", "c", "D", "o", "v", "L", "2", "F", "i", "Y", "2",
      "Q", "u", "a", "3", "o", "=">>,
    \* base64 of 'https://abcde.kz' (a site with its scheme)
    <<"a", "H", "R", "0", "c", "H", "M", "6", "L", "y", "9", "h", "Y", "m",
      "N", "k", "Z", "S", "5", "r", "e", "g", "=", "=">>,
    \* base64 of 'https://abcd.kz/menu\n1' (a site, a path and a second line)
    <<"a", "H", "R", "0", "c", "H", "M", "6", "L", "y", "9", "h", "Y", "m",
      "N", "k", "L", "m", "t", "6", "L", "2", "1", "l", "b", "n", "U", "K",
      "M", "Q", "=", "=">>,
    \* base64 of 'shop.com/a b' (a bare domain with a path)
    <<"c", "2", "h", "v", "c", "C", "5", "j", "b", "2", "0", "v", "Y", "S",
      "B", "i">>,
    \* base64 of '2gis.kz/firm/70' (a page of the platform itself)
    <<"M", "m", "d", "p", "c", "y", "5", "r", "e", "i", "9", "m", "a", "X",
      "J", "t", "L", "z", "c", "w">>,
    \* base64 of 'x google.com abcd.org' (a search engine, then a site)
    <<"e", "C", "B", "n", "b", "2", "9", "n", "b", "G", "U", "u", "Y", "2",
      "9", "t", "I", "G", "F", "i", "Y", "2", "Q", "u", "b", "3", "J", "n">>,
    \* base64 of 'ab.kz' (a domain of five characters)
    <<"Y", "W", "I", "u", "a", "3", "o", "=">>,
    \* base64 of 'httpbin.org' (a bare domain that starts with http)
    <<"a", "H", "R", "0", "c", "G", "J", "p", "b", "i", "5", "v", "c", "m",
      "c", "=">>,
    \* base64 of 'Abcd.KZ HTTPS://WA.ME/7701' (a site and a WhatsApp link in upper case)
    <<"Q", "W", "J", "j", "Z", "C", "5", "L", "W", "i", "B", "I", "V", "F",
      "R", "Q", "U", "z", "o", "v", "L", "1", "d", "B", "L", "k", "1", "F",
      "L", "z", "c", "3", "M", "D", "E", "=">>,
    \* base64 of 'https://wa.me/77011234567' (a WhatsApp link)
    <<"a", "H", "R", "0", "c", "H", "M", "6", "L", "y", "9", "3", "Y", "S",
      "5", "t", "Z", "S", "8", "3", "N", "z", "A", "x", "M", "T", "I", "z",
      "N", "D", "U", "2", "N", "w", "=", "=">>,
    \* base64 of 'call wa.me/7701' (a WhatsApp host and number)
    <<"Y", "2", "F", "s", "b", "C", "B", "3", "Y", "S", "5", "t", "Z", "S",
      "8", "3", "N", "z", "A", "x">>,
    \* base64 of 'whatsapp://send?phone=7701' (a WhatsApp deep link)
    <<"d", "2", "h", "h", "d", "H", "N", "h", "c", "H", "A", "6", "L", "y",
      "9", "z", "Z", "W", "5", "k", "P", "3", "B", "o", "b", "2", "5", "l",
      "P", "T", "c", "3", "M", "D", "E", "=">>,
    \* base64 of 'hello world' (no destination)
    <<"a", "G", "V", "s", "b", "G", "8", "g", "d", "2", "9", "y", "b", "G",
      "Q", "=">>,
    \* base64 of '\xffab' (bytes that are not UTF-8)
    <<"/", "2", "F", "i">>
  }

\* A link as scraped may have lost up to MaxCut characters of its payload's
\* end, the padding first.
MaxCut == 3

cut(s, n) == SubSeq(s, 1, Len(s) - n)

\* https://link.2gis.com/ and a host that is not the redirect service.
LinkHosts ==
  { <<"h", "t", "t", "p", "s", ":", "/", "/", "l", "i", "n", "k", ".", "2",
    "g", "i", "s", ".", "c", "o", "m", "/">>,
    <<"h", "t", "t", "p", "s", ":", "/", "/", "e", "x", "a", "m", "p", "l",
    "e", ".", "k", "z", "/">> }

\* Nothing, a query and a fragment.
LinkTails == { <<>>, <<"?", "x", "=", "1">>, <<"#", "t", "o", "p">> }

\* The links handed to the decoders; the last one holds no "/".
Links ==
  { host \o cut(payload, n) \o pad \o tail :
      host \in LinkHosts, payload \in Payloads, n \in 0..MaxCut,
      pad \in { <<>>, <<"=">> }, tail \in LinkTails }
    \cup { redirect_host }

\* decode_2gis_website_link(link) and decode_2gis_link(link) of one link.
DecodeLink ==
  /\ pc = "fn_start"
  /\ pc' = "fn_decoded"
  /\ website' = decode_2gis_website_link(link)
  /\ whatsapp' = decode_2gis_link(link)
  /\ UNCHANGED <<run_state, function_vars, link, selector_outcomes,
                 selector_text, pager_vars>>

NextDecoders == DecodeLink

InitDecoders ==
  /\ NoRun
  /\ NoFunctionCall
  /\ max_items_per_category = default_max_items
  /\ pc = "fn_start"
  /\ link \in Links
  /\ website = None /\ whatsapp = None
  /\ selector_outcomes = <<>> /\ selector_text = None
  /\ controls = <<>> /\ clicks = <<>>

SpecDecoders == InitDecoders /\ [][NextDecoders]_vars

\* ------------------------------------------------------ qualified names

\* The base names have 1..MaxBaseLen characters of BaseAlphabet and the
\* qualifiers 1..MaxQualifierLen characters of QualifierAlphabet.
MaxBaseLen == 2
MaxQualifierLen == 2
BaseAlphabet == {"a", "b"}
QualifierAlphabet == {"c", "d", " "}

\* normalize_company_name(X) and normalize_company_name("X (Y)")
NormalizeParenthesized ==
  /\ pc = "fn_start"
  /\ pc' = "fn_parenthesized"
  /\ key_a' = normalize_company_name(raw_a)
  /\ key_b' = normalize_company_name(raw_a \o <<" ", "(">> \o raw_b \o <<")">>)
  /\ UNCHANGED <<run_state, extractor_vars, raw_a, raw_b, verdict_ab,
                 verdict_ba>>

\* normalize_company_name(X) and normalize_company_name("X, Y")
NormalizeAfterComma ==
  /\ pc = "fn_start"
  /\ pc' = "fn_after_comma"
  /\ key_a' = normalize_company_name(raw_a)
  /\ key_b' = normalize_company_name(raw_a \o <<",", " ">> \o raw_b)
  /\ UNCHANGED <<run_state, extractor_vars, raw_a, raw_b, verdict_ab,
                 verdict_ba>>

NextQualified ==
  \/ NormalizeParenthesized
  \/ NormalizeAfterComma

InitQualified ==
  /\ NoRun
  /\ max_items_per_category = default_max_items
  /\ pc = "fn_start"
  /\ raw_a \in Strings(BaseAlphabet, MaxBaseLen) \ {<<>>}
  /\ raw_b \in Strings(QualifierAlphabet, MaxQualifierLen) \ {<<>>}
  /\ key_a = <<>> /\ key_b = <<>>
  /\ verdict_ab = FALSE /\ verdict_ba = FALSE
  /\ NoExtraction

SpecQualified == InitQualified /\ [][NextQualified]_vars

\* ------------------------------------------------- a list of detail pages

\* A category of MaxDetailPages detail pages.
MaxDetailPages == 2

Coffee == <<"C", "o", "f", "f", "e", "e">>
CoffeeBar == <<"C", "o", "f", "f", "e", "e", " ", "B", "a", "r">>

\* lines 89-102 with the set visited in a given order: the first entry on
\* from i that holds or is held by the key and is not passed over for its
\* address ends the scan with True.

\* line 99, `continue`: the verdict is that of the rest of the scan
returns_not_duplicate(rest) == FALSE
continues_scan(rest) == rest

RECURSIVE scan_processed(_, _, _, _, _)
scan_processed(normalized_name, address, order, i, details) ==
  IF i > Len(order) THEN FALSE
  ELSE IF names_contained(normalized_name, order[i])
       THEN IF address_differs(address, order[i], details)
            THEN continues_scan(
                   scan_processed(normalized_name, address, order, i + 1, details))
            ELSE TRUE
       ELSE scan_processed(normalized_name, address, order, i + 1, details)

\* lines 76-104, `for existing_name in self.processed_companies` visiting the
\* keys in the given order
is_company_already_processed_in(name, address, order, details) ==
  LET normalized_name == normalize_company_name(name) IN
  IF normalized_name = <<>> THEN FALSE
  ELSE IF \E i \in 1..Len(order) : order[i] = normalized_name THEN TRUE
  ELSE scan_processed(normalized_name, address, order, 1, details)

\* The orders in which a for loop can visit a set (a hash set of str).
ScanOrders(S) ==
  {f \in [1..Cardinality(S) -> S] :
     \A i, j \in 1..Cardinality(S) : i # j => f[i] # f[j]}

\* The first key of the order that holds or is held by the key of the name,
\* '' when there is none.
first_contained(name, order) ==
  LET hits == {i \in 1..Len(order) :
                 names_contained(normalize_company_name(name), order[i])}
  IN IF hits = {} THEN <<>>
     ELSE order[CHOOSE i \in hits : \A j \in hits : i <= j]

\* is_company_already_processed(name, address) on the index as it stands
\* between two detail pages: raw_a and raw_b are the name and the address
\* asked about, key_a the first key the scan came to that holds or is held by
\* the name's, verdict_ba whether that entry was passed over for its address,
\* verdict_ab what the lookup returned.
LookUp ==
  /\ pc \in {"detail", "category_done"}
  /\ pc' = "fn_looked_up"
  /\ \E name \in site_names \ {None}, address \in site_addresses,
        order \in ScanOrders(processed_companies) :
       /\ raw_a' = name
       /\ raw_b' = address
       /\ key_a' = first_contained(name, order)
       /\ verdict_ba' = (/\ first_contained(name, order) # <<>>
                         /\ address_differs(address, first_contained(name, order),
                                            company_details))
       /\ verdict_ab' = is_company_already_processed_in(name, address, order,
                                                        company_details)
  /\ UNCHANGED <<run_state, extractor_vars, key_b>>

NextPages ==
  \/ ExtractBusinessInfo
  \/ DetailPageFails
  \/ LookUp

\* A parser in parse_category about to load the first of the URLs of a
\* category, on a site whose pages show names with keys inside one another,
\* names without a key, and no name.
InitPages ==
  /\ max_items_per_category = default_max_items
  /\ results = <<>>
  /\ processed_companies = {}
  /\ company_details = <<>>
  /\ pc = "detail"
  /\ category_index = 1
  /\ business_urls = [i \in 1..MaxDetailPages |-> i]
  /\ url_index = 1
  /\ all_unique_links = {}
  /\ current_page = 1
  /\ consecutive_failures = 0
  /\ current_links = {}
  /\ new_links = 0
  /\ next_page_found = FALSE
  /\ site_urls = MaxDetailPages
  /\ site_names = {Coffee, CoffeeHouse, CoffeeBar, NumeroFive, None}
  /\ site_addresses = {MainSt12, SideSt45, None}
  /\ site_contacts = {NoContacts}
  /\ site_script = <<>>
  /\ browser = TRUE
  /\ page_log = <<>>
  /\ collected = {}
  /\ halt_reason = "none"
  /\ max_collected_page = 0
  /\ ever_failed = FALSE
  /\ NoFunctionCall
  /\ NoExtraction
  /\ NoExit

SpecPages == InitPages /\ [][NextPages]_vars

\* ---------------------------------------------------------------- claims

\* A step that leaves the advance position: go_to_next_page_fixed was called.
AdvanceStep == pc = "pag_advance" /\ pc' # "pag_advance"

\* A step in which a page's links were collected and merged.
CollectStep ==
  /\ pc = "pag_loop" /\ pc' \in {"pag_exit", "pag_advance"}
  /\ loop_continues(current_page, consecutive_failures)

\* C4: the list get_business_links_pagination_fixed returns holds no URL
\* twice, holds at most max_items_per_category URLs, and every URL in it was
\* collected from a visited page.
C4_ReturnedLinksBounded ==
  pc = "pag_returned" =>
    /\ Cardinality(Range(business_urls)) = Len(business_urls)
    /\ Len(business_urls) <= max_items_per_category
    /\ Range(business_urls) \subseteq collected

\* More links than the limit were accumulated and the list was cut to the limit.
C4_Witness ==
  /\ pc = "pag_returned" /\ halt_reason = "limit"
  /\ Cardinality(all_unique_links) > max_items_per_category
  /\ Len(business_urls) = max_items_per_category

\* C5: once the merged set holds at least max_items_per_category links the
\* loop is left at once, and no advance is attempted with that many links.
C5_LimitStopsBeforeAdvance ==
  /\ [][(CollectStep /\ Cardinality(all_unique_links') >= max_items_per_category)
          => (pc' = "pag_exit" /\ current_page' = current_page)]_vars
  /\ [][AdvanceStep
          => Cardinality(all_unique_links) < max_items_per_category]_vars

\* Page 1 alone filled the limit: the loop was left with no advance made.
C5_Witness ==
  /\ pc = "pag_exit" /\ halt_reason = "limit"
  /\ current_page = 1 /\ ~ever_failed
  /\ max_items_per_category > 1
  /\ Cardinality(all_unique_links) = max_items_per_category

\* C6: a successful advance resets the failure counter, a failed one adds one
\* to it; at max_failures the loop is left, and the crawl returns the links
\* accumulated so far, cut to the limit.
C6_FailureCap ==
  /\ [][AdvanceStep
          => consecutive_failures' =
               (IF next_page_found' THEN 0 ELSE consecutive_failures + 1)]_vars
  /\ [](consecutive_failures >= max_failures
          => (pc \in {"pag_exit", "pag_returned"} /\ halt_reason = "failures"))
  /\ []((pc = "pag_returned" /\ halt_reason = "failures")
          => /\ Range(business_urls) \subseteq all_unique_links
             /\ Len(business_urls) =
                  Min(max_items_per_category, Cardinality(all_unique_links)))

\* Three failures in a row on a later page, after advances that succeeded,
\* and the links collected until then were returned.
C6_Witness ==
  /\ pc = "pag_returned" /\ halt_reason = "failures"
  /\ consecutive_failures = max_failures
  /\ current_page > 1
  /\ business_urls # <<>>

\* C7: below the limit, the loop is left after a page p > 1 whose links are
\* all in the set already and goes on to an advance otherwise (a first page
\* with no new link included); the crawl then returns the union of the links
\* of the pages visited.
C7_ZeroNewLinksHalts ==
  /\ [][CollectStep
          => new_links' = Cardinality(current_links' \ all_unique_links)]_vars
  /\ [][(CollectStep /\ Cardinality(all_unique_links') < max_items_per_category)
          => IF new_links' = 0 /\ current_page > 1
             THEN pc' = "pag_exit" /\ halt_reason' = "no_new"
             ELSE pc' = "pag_advance"]_vars
  /\ []((pc = "pag_returned" /\ halt_reason = "no_new")
          => (current_page > 1 /\ Range(business_urls) = collected))

\* Page 1 and page 2 yield three links between them, every advance succeeds,
\* page 3 adds nothing: the crawl halts on page 3 and returns the three links.
C7_Witness ==
  /\ pc = "pag_returned" /\ halt_reason = "no_new"
  /\ current_page = 3 /\ ~ever_failed
  /\ collected = {1, 2, 3}
  /\ Range(business_urls) = {1, 2, 3}

\* C8: the pagination loop terminates; no links are collected from a page
\* above max_pages, and no advance is attempted after max_failures failures
\* in a row.
C8_Terminates ==
  /\ [](max_collected_page <= max_pages)
  /\ [](consecutive_failures <= max_failures)
  /\ [][AdvanceStep => consecutive_failures < max_failures]_vars
  /\ <>(pc \in {"pag_exit", "pag_returned"})

\* The page cap ended the crawl: links were collected from page max_pages.
C8_Witness ==
  /\ pc = "pag_returned" /\ halt_reason = "page_cap"
  /\ max_collected_page = max_pages

\* C1: the index holds at least as many entries as results holds records
\* (every record emitted registered an entry of its own).
C1_IndexCoversResults == Cardinality(processed_companies) >= Len(results)

\* C2: a name whose key is in the index, asked about with an address that is
\* not similar to the address recorded for that key (an address the page
\* showed, not the placeholder), is not judged processed.
C2_AddressOverride ==
  \A name \in site_names \ {None}, address \in site_addresses \ {None} :
    \A k \in processed_companies :
      (/\ normalize_company_name(name) = k
       /\ company_details[k].address # NOT_SPECIFIED
       /\ ~addresses_similar(address, company_details[k].address))
        => ~is_company_already_processed(name, address, processed_companies,
                                         company_details)

\* C3: of the three pages of the scripted site the first is kept, the second
\* is dropped as a duplicate and the third is kept.
C3_DedupScenario ==
  Len(page_log) >= 3 =>
    /\ page_log[1].kept
    /\ ~page_log[2].kept
    /\ page_log[3].kept

\* C9: normalizing a key that normalize_company_name returned gives the key
\* back.
C9_NormalizeIdempotent == pc = "fn_twice" => key_b = key_a

\* C10: one name is judged already processed on the index of the other
\* exactly when the other is on the index of the one.
C10_ContainmentSymmetric == pc = "fn_judged" => verdict_ab = verdict_ba

\* Two keys of different lengths, one inside the other, judged duplicates.
C10_Witness ==
  /\ pc = "fn_judged"
  /\ verdict_ab /\ verdict_ba
  /\ Len(key_a) > Len(key_b)
  /\ Len(key_b) > 3

\* C15: with the browser set up, no failure of the crawl or of the save ends
\* the run: the categories are taken one by one in order, save_to_excel is
\* called after the last, and run returns; it raises only when setup_browser
\* failed (or an interrupt arrived).
C15_FailuresDoNotAbort ==
  /\ [](pc = "raised" => (setup_failed \/ interrupted_at # "none"))
  /\ [][category_index' # category_index
          => category_index' = category_index + 1]_vars
  /\ [](save_attempted => category_index = NumCategories + 1)
  /\ []((pc = "returned") => save_attempted)
  /\ <>(pc \in {"returned", "raised"})

\* Every category failed (no search, no links or no page) and run returned
\* after the save.
C15_Witness ==
  /\ pc = "returned" /\ save_attempted
  /\ ~setup_failed /\ interrupted_at = "none"
  /\ category_index = NumCategories + 1
  /\ results = <<>>

\* The step in which open_2gis_and_search returns.
SearchStep == pc = "search" /\ pc' \in {"links", "category_done"}

\* C16: the fallback URLs are tried in list order up to the first that loads;
\* when none loads the category ends with no link collected and results and
\* the index as they were, and the next category follows.
C16_FallbackUrls ==
  /\ [][SearchStep =>
          /\ goto_log' # <<>>
          /\ \A i \in DOMAIN goto_log' :
               /\ goto_log'[i].url = i
               /\ goto_log'[i].loaded => i = Len(goto_log')
          /\ ~goto_log'[Len(goto_log')].loaded =>
               /\ Len(goto_log') = NumFallbackUrls
               /\ pc' = "category_done"
          /\ UNCHANGED <<results, processed_companies, company_details,
                         business_urls, all_unique_links>>]_vars
  /\ [][(pc = "category_done" /\ pc' \notin {"category_done", "finally_raised"})
          => /\ pc' = "category"
             /\ category_index' = category_index + 1
             /\ UNCHANGED <<results, processed_companies, company_details>>]_vars
  /\ [][(pc = "category" /\ pc' # "category")
          => pc' = (IF category_index <= NumCategories
                    THEN "search" ELSE "save")]_vars

\* The first category gave a record; for the second none of the fallback
\* URLs loaded and the category ended.
C16_Witness ==
  /\ pc = "category_done" /\ category_index = 2
  /\ Len(goto_log) = NumFallbackUrls
  /\ \A i \in DOMAIN goto_log : ~goto_log[i].loaded
  /\ results # <<>>
  /\ business_urls = <<>>

\* C17: when run has returned or raised, with the browser launched the close
\* of the browser was attempted, and the stop of the driver was attempted
\* whether or not the close failed.
C17_CleanupOnEveryExit ==
  pc \in {"returned", "raised"} =>
    /\ browser => close_attempted
    /\ stop_attempted

\* An interrupt during the load of a detail page, a close that failed, and
\* the stop attempted all the same.
C17_Witness ==
  /\ pc = "raised" /\ interrupted_at = "detail"
  /\ browser /\ close_attempted /\ close_failed
  /\ stop_attempted

\* C18: the index is empty when run starts and never loses a key; a page whose
\* name has the key of a page kept earlier, in the same category or a later
\* one, is not kept.
C18_IndexOnlyGrows ==
  /\ [](pc = "start" => (processed_companies = {} /\ company_details = <<>>))
  /\ [][/\ processed_companies \subseteq processed_companies'
        /\ DOMAIN company_details \subseteq DOMAIN company_details']_vars
  /\ [](\A i, j \in DOMAIN page_log :
          (/\ i < j
           /\ page_log[i].kept
           /\ normalize_company_name(page_log[i].name) # <<>>
           /\ normalize_company_name(page_log[j].name) =
                normalize_company_name(page_log[i].name))
            => ~page_log[j].kept)

\* A page kept in the first category and a page of the same key dropped in
\* the second.
C18_Witness ==
  \E i, j \in DOMAIN page_log :
    /\ page_log[i].category = 1 /\ page_log[i].kept
    /\ page_log[j].category = 2 /\ ~page_log[j].kept
    /\ normalize_company_name(page_log[j].name) \in processed_companies

\* C19: the index changes only in the step that appends a record to results,
\* a record whose name was not judged processed on the index as it was; a
\* page dropped as a duplicate or failing leaves index and results as they
\* were.
C19_IndexFrame ==
  /\ [][(processed_companies' # processed_companies
           \/ company_details' # company_details)
          => (pc = "detail" /\ Len(results') = Len(results) + 1)]_vars
  /\ [][results' # results
          => /\ pc = "detail"
             /\ Len(results') = Len(results) + 1
             /\ SubSeq(results', 1, Len(results)) = results
             /\ ~is_company_already_processed(
                   results'[Len(results')].name, None,
                   processed_companies, company_details)]_vars

\* Two pages of a category were processed: the first was kept and registered,
\* the second left results and the index as they were.
C19_Witness ==
  /\ pc = "category_done" /\ category_index = 1
  /\ Len(business_urls) = 2
  /\ Len(results) = 1
  /\ Cardinality(processed_companies) = 1

\* The selectors of the chain that find an element with a text that is not
\* blank.
GoodSelectors ==
  {i \in DOMAIN selector_outcomes :
     /\ selector_outcomes[i].element = "found"
     /\ selector_outcomes[i].text \notin {Raised, None}
     /\ \E k \in DOMAIN selector_outcomes[i].text :
          selector_outcomes[i].text[k] \notin Whitespace}

\* C13: the chain returns the stripped text of the first selector, in list
\* order, that finds an element with a text that is not blank, whatever the
\* selectors before it did (missed, raised, gave no text), and None when
\* there is no such selector.
C13_SelectorChain ==
  pc = "fn_chain_done" =>
    IF GoodSelectors = {} THEN selector_text = None
    ELSE LET first == CHOOSE i \in GoodSelectors :
                        \A j \in GoodSelectors : i <= j
         IN selector_text = strip(selector_outcomes[first].text)

\* The first selector's query raised, the second's text read raised, and the
\* third gave the text.
C13_Witness ==
  /\ pc = "fn_chain_done"
  /\ selector_outcomes[1].element = "raises"
  /\ selector_outcomes[2].text = Raised
  /\ selector_text = <<AsciiLower[3]>>

\* The fields of a record that hold a text.
TextFields == {"name", "address", "phone", "website", "whatsapp", "instagram"}

\* C14: every record of results has its eight fields, none of them None (or
\* an exception, or ''): a field with nothing found holds 'Не указано'; and
\* the has-website flag is 'Да' exactly when the website field is not
\* 'Не указано'.
C14_RecordComplete ==
  \A i \in DOMAIN results :
    /\ DOMAIN results[i] = TextFields \cup {"category", "has_website"}
    /\ \A f \in TextFields : results[i][f] \notin {None, Raised, <<>>}
    /\ results[i].category = category_index
    /\ results[i].has_website \in {"Da", "Net"}
    /\ results[i].has_website = "Da" <=> results[i].website # NOT_SPECIFIED

\* A record of a page with no name, whose phone extraction raised and whose
\* website was found.
C14_Witness ==
  /\ Len(results) = 1
  /\ results[1].name = NOT_SPECIFIED
  /\ results[1].phone = NOT_SPECIFIED
  /\ results[1].website = AllContacts.website
  /\ results[1].has_website = "Da"
  /\ results[1].instagram = AllContacts.instagram

\* An address lower-cased, its punctuation replaced by spaces and its digits
\* deleted.
Cleaned(addr) ==
  SelectSeq([i \in DOMAIN addr |->
               IF addr[i] \notin WordChars /\ addr[i] \notin Whitespace
               THEN " " ELSE LowerChar(addr[i])],
            LAMBDA ch : ch \notin Digits)

\* The token set of an address: the maximal runs without whitespace of the
\* cleaned address.
TokenSet(addr) ==
  LET c == Cleaned(addr) IN
  {SubSeq(c, i, j) : <<i, j>> \in
     {ij \in (DOMAIN c) \X (DOMAIN c) :
        /\ ij[1] <= ij[2]
        /\ \A k \in ij[1]..ij[2] : c[k] \notin Whitespace
        /\ ij[1] = 1 \/ c[ij[1] - 1] \in Whitespace
        /\ ij[2] = Len(c) \/ c[ij[2] + 1] \in Whitespace}}

\* C20: addresses_similar(a, b) is true exactly when neither is empty (or
\* None) and the token sets A and B have 10 * |A /\ B| > 7 * |A \/ B|, with
\* A \/ B not empty.
C20_AddressesSimilar ==
  pc = "fn_compared" =>
    verdict_ab =
      (/\ raw_a \notin {None, <<>>}
       /\ raw_b \notin {None, <<>>}
       /\ TokenSet(raw_a) \cup TokenSet(raw_b) # {}
       /\ 10 * Cardinality(TokenSet(raw_a) \cap TokenSet(raw_b))
            > 7 * Cardinality(TokenSet(raw_a) \cup TokenSet(raw_b)))

\* Two addresses in different styles, one with a word more than the other,
\* judged similar.
C20_Witness ==
  /\ pc = "fn_compared"
  /\ verdict_ab
  /\ TokenSet(raw_a) # TokenSet(raw_b)
  /\ \E i \in DOMAIN raw_a : raw_a[i] = "-"
  /\ \E i \in DOMAIN raw_b : raw_b[i] \in Digits

\* The four padding variants of the claims, in the order stated.
PaddingVariants == << <<>>, <<"=">>, <<"=", "=">>, <<"=", "=", "=">> >>

\* The destination found in the text one padding variant decodes to: None when
\* the variant does not decode or its text holds no qualifying domain.
SiteUnder(encoded, padding) ==
  LET text == decoded_string(encoded, padding) IN
  IF text = Raised THEN None ELSE first_site(url_matches(text), 1)

\* The variants, by position, under which the payload yields a destination.
YieldingVariants(encoded) ==
  {p \in 1..4 : SiteUnder(encoded, PaddingVariants[p]) # None}

\* C11: for a link of the redirect service, decode_2gis_website_link returns
\* the destination found under the first of the variants "", "=", "==", "==="
\* whose decoded text holds a qualifying domain, and None only when no
\* variant yields one.
C11_FirstYieldingPadding ==
  (pc = "fn_decoded" /\ IsSubstring(redirect_host, link)
     /\ encoded_part(link) # None)
    => LET encoded == encoded_part(link)
           Y == YieldingVariants(encoded)
       IN  IF Y = {}
           THEN website = None
           ELSE website =
                  SiteUnder(encoded,
                            PaddingVariants[CHOOSE p \in Y : \A q \in Y : p <= q])

\* A payload that decodes under "==" and under nothing before it, decoded to
\* its site.
C11_Witness ==
  /\ pc = "fn_decoded"
  /\ IsSubstring(redirect_host, link)
  /\ encoded_part(link) # None
  /\ decoded_string(encoded_part(link), PaddingVariants[1]) = Raised
  /\ decoded_string(encoded_part(link), PaddingVariants[2]) = Raised
  /\ decoded_string(encoded_part(link), PaddingVariants[3]) # Raised
  /\ website # None

\* No padding variant of the payload decodes to text.
NeverDecodes(encoded) ==
  \A p \in 1..4 : decoded_string(encoded, PaddingVariants[p]) = Raised

\* No text the payload decodes to holds a site match other than short ones and
\* ones on a host of the platform, the bank or a search engine.
NoQualifyingSite(encoded) ==
  \A p \in 1..4 :
    LET text == decoded_string(encoded, PaddingVariants[p]) IN
    text # Raised =>
      \A i \in 1..Len(url_matches(text)) :
        \/ Len(url_matches(text)[i]) <= min_domain_len
        \/ \E bad \in bad_hosts : IsSubstring(bad, lower(url_matches(text)[i]))

\* No text the payload decodes to holds a match of a WhatsApp pattern.
NoWhatsAppMatch(encoded) ==
  \A p \in 1..4 :
    LET text == decoded_string(encoded, PaddingVariants[p]) IN
    text # Raised => wa_matches(text) = <<>>

C21_QualifiersRemoved ==
  pc \in {"fn_parenthesized", "fn_after_comma"} => key_b = key_a

\* The detail pages dropped as duplicates so far (a page that failed to load
\* is not among the pages logged).
PagesDiscarded == Cardinality({i \in 1..Len(page_log) : ~page_log[i].kept})

\* C22: the 'duplicates skipped' count of the summary is the number of detail
\* pages dropped as duplicates so far.
C22_DuplicatesSkipped ==
  get_deduplication_stats(processed_companies, results).duplicates_skipped
    = PagesDiscarded

\* C23 as stated: when the first entry the scan comes to that holds or is
\* held by the new key has a recorded address unlike the one supplied, the
\* lookup returns not-duplicate.
C23_FirstEntryOnly ==
  (/\ pc = "fn_looked_up"
   /\ normalize_company_name(raw_a) \notin processed_companies
   /\ verdict_ba)
    => ~verdict_ab

\* C23, amended: an entry passed over for its address does not end the scan.
\* The lookup returns duplicate exactly when the new key is in the index or
\* some entry holds or is held by it and is not passed over, whatever the
\* order of the scan.
C23_EveryEntryConsulted ==
  pc = "fn_looked_up" =>
    LET normalized_name == normalize_company_name(raw_a) IN
    verdict_ab <=>
      /\ normalized_name # <<>>
      /\ \/ normalized_name \in processed_companies
         \/ \E existing_name \in processed_companies :
              /\ Len(normalized_name) > 3 /\ Len(existing_name) > 3
              /\ \/ IsSubstring(normalized_name, existing_name)
                 \/ IsSubstring(existing_name, normalized_name)
              /\ ~ (/\ Truthy(raw_b)
                    /\ Truthy(company_details[existing_name].address)
                    /\ ~addresses_similar(
                          raw_b, company_details[existing_name].address))

\* The first entry the scan came to was passed over for its address and a
\* later one made the name a duplicate.
C23_Witness ==
  /\ pc = "fn_looked_up"
  /\ normalize_company_name(raw_a) \notin processed_companies
  /\ verdict_ba
  /\ verdict_ab

\* C26: on every index a run of detail pages builds, a name that
\* is_company_already_processed(name) does not judge processed is not judged
\* processed by is_company_already_processed(name, address) either, whatever
\* the address: the check after the address drops no page.
C26_SecondCheckSubsumed ==
  pc \in {"detail", "category_done"} =>
    \A name \in site_names, address \in site_addresses :
      ~is_company_already_processed(name, None, processed_companies,
                                    company_details)
        => ~is_company_already_processed(name, address, processed_companies,
                                         company_details)

\* A page with a name and an address was kept on an index that held another
\* company: both checks were made and both returned False.
C26_Witness ==
  /\ pc = "category_done"
  /\ Len(results) = 2
  /\ Cardinality(processed_companies) = 2
  /\ results[2].address # NOT_SPECIFIED

\* The key of the i-th record of results.
RecordKey(i) == normalize_company_name(results[i].name)

\* C27: the records of results whose keys are not empty have keys that differ
\* pairwise, and of two such keys longer than 3 characters neither is inside
\* the other.
C27_NoCandidateDuplicates ==
  \A i, j \in DOMAIN results :
    (i < j /\ RecordKey(i) # <<>> /\ RecordKey(j) # <<>>)
      => /\ RecordKey(i) # RecordKey(j)
         /\ (Len(RecordKey(i)) > 3 /\ Len(RecordKey(j)) > 3)
              => /\ ~IsSubstring(RecordKey(i), RecordKey(j))
                 /\ ~IsSubstring(RecordKey(j), RecordKey(i))

\* Two records with keys were emitted.
C27_Witness ==
  /\ Len(results) = 2
  /\ RecordKey(1) # <<>>
  /\ RecordKey(2) # <<>>

\* C28: processed_companies is the key set of company_details and never holds
\* the empty key, and an entry of company_details, once written, stays as it
\* was written.
C28_IndexAppendOnly ==
  /\ [](/\ processed_companies = DOMAIN company_details
        /\ <<>> \notin processed_companies)
  /\ [][\A key \in DOMAIN company_details :
          /\ key \in DOMAIN company_details'
          /\ company_details'[key] = company_details[key]]_vars

\* A page whose name has no key was kept after a company was registered: the
\* index holds the one entry.
C28_Witness ==
  /\ Len(results) = 2
  /\ results[2].name = NumeroFive
  /\ Cardinality(processed_companies) = 1
  /\ DOMAIN company_details = processed_companies

\* A pass of the loop body that collects page current_page again after a
\* failed advance from it, and finds no link it did not have.
RecollectsNothingNew ==
  /\ pc = "pag_loop" /\ pc' \in {"pag_exit", "pag_advance"}
  /\ consecutive_failures >= 1
  /\ current_page > 1
  /\ new_links' = 0

\* C29 as stated: after a failed advance from a page past the first, a
\* re-collection with no new link ends the loop by the zero-new-links rule
\* with the failure counter at 1; an advance is attempted again from a page
\* past the first only when the re-collection gave new links.
C29_ExitWithOneFailure ==
  /\ [][RecollectsNothingNew
          => /\ pc' = "pag_exit" /\ halt_reason' = "no_new"
             /\ consecutive_failures' = 1]_vars
  /\ []((pc = "pag_advance" /\ consecutive_failures >= 1 /\ current_page > 1)
          => new_links > 0)

\* C29, amended: the loop ends by the zero-new-links rule with the failure
\* counter at the number of advances failed in a row from that page, 1 or 2
\* (2 when the re-collection after the first failure gave new links).
C29_ExitAfterFailedAdvance ==
  /\ [][RecollectsNothingNew
          => /\ pc' = "pag_exit" /\ halt_reason' = "no_new"
             /\ consecutive_failures' \in {1, 2}]_vars
  /\ []((pc = "pag_advance" /\ consecutive_failures >= 1 /\ current_page > 1)
          => new_links > 0)

\* The loop was left by the zero-new-links rule after two failed advances from
\* a page past the first.
C29_Witness ==
  /\ pc = "pag_exit" /\ halt_reason = "no_new"
  /\ consecutive_failures = 2
  /\ current_page > 1

\* C30: when the scroll to the top raises in any pass of the loop,
\* get_business_links_pagination_fixed returns the empty list, whatever links
\* the earlier pages gave, and parse_category returns without loading a
\* detail page.
C30_ScrollFailureDropsLinks ==
  /\ []((pc = "pag_returned" /\ halt_reason = "exception")
          => business_urls = <<>>)
  /\ [](pc = "detail" => halt_reason # "exception")
  /\ [][(pc = "pag_returned" /\ halt_reason = "exception")
          => (pc' = "category_done" /\ results' = results)]_vars

\* The scroll raised in a later pass, after links had been collected.
C30_Witness ==
  /\ pc = "pag_returned" /\ halt_reason = "exception"
  /\ all_unique_links # {}
  /\ business_urls = <<>>

\* ------------------------------------------------- go_to_next_page_fixed
\* A control of the listing page: its tag, its label ("number" when its text
\* is exactly the target page number, "next" when it is the element one of
\* the next_selectors finds) and how it answers the calls made on it:
\*   "loads"        visible and enabled; click() clicks and the page loads
\*   "wait_raises"  visible and enabled; click() clicks and
\*                  wait_for_load_state then times out
\*   "hidden"       not visible
\*   "disabled"     visible and not enabled; click() times out
\*   "detached"     every call on the element raises
\* A div stands for an element carrying data-page, which only the third of
\* the pagination_selectors finds.

MaxControls == 3

ControlStates == {"loads", "wait_raises", "hidden", "disabled", "detached"}

Controls ==
  [tag : {"a", "button"}, label : {"number", "next"}, state : ControlStates]
    \cup [tag : {"div"}, label : {"number"}, state : ControlStates]

pagination_selectors == <<"a", "button", "div">>

query_raises(c) == c.state = "detached"

is_visible(c) == c.state \in {"loads", "wait_raises", "disabled"}

is_enabled(c) == c.state \in {"loads", "wait_raises", "hidden"}

\* click() returned: the control was clicked.
click_made(c) == c.state \in {"loads", "wait_raises"}

\* click() and wait_for_load_state both returned.
page_loads(c) == c.state = "loads"

\* Lines 378-391, one selector: the first listed element with the exact text
\* that is visible; an element whose call raises ends the selector, and the
\* elements after it are not looked at (except: continue).  0 for none.
exact_by_selector(ctrls, tag) ==
  LET elements == {i \in 1..Len(ctrls) :
                     ctrls[i].tag = tag /\ ctrls[i].label = "number"}
      stops == {i \in elements :
                  query_raises(ctrls[i]) \/ is_visible(ctrls[i])}
  IN IF stops = {} THEN 0
     ELSE LET i == CHOOSE m \in stops : \A n \in stops : m <= n
          IN IF query_raises(ctrls[i]) THEN 0 ELSE i

\* Lines 377-391: the selectors in order, the first that yields an element.
exact_page_control(ctrls) ==
  LET yielding == {k \in 1..Len(pagination_selectors) :
                     exact_by_selector(ctrls, pagination_selectors[k]) # 0}
  IN IF yielding = {} THEN 0
     ELSE exact_by_selector(ctrls,
            pagination_selectors[CHOOSE m \in yielding :
                                   \A n \in yielding : m <= n])

\* Lines 407-418: the first element of the next_selectors that is visible and
\* enabled; an element whose call raises is passed over.  0 for none.
next_control(ctrls) ==
  LET usable == {i \in 1..Len(ctrls) :
                   /\ ctrls[i].label = "next"
                   /\ ~query_raises(ctrls[i])
                   /\ is_visible(ctrls[i]) /\ is_enabled(ctrls[i])}
  IN IF usable = {} THEN 0
     ELSE CHOOSE m \in usable : \A n \in usable : m <= n

ClickOf(ctrls, i, stage) ==
  [control |-> i, stage |-> stage, made |-> click_made(ctrls[i])]

\* Lines 446-472: every a and button in document order; the first with the
\* exact text, visible and enabled is clicked, and True is returned when the
\* page loads.  Whatever raises inside the loop body, the click and the wait
\* included, moves the loop to the next element (except: continue).
RECURSIVE scan_all_pagination(_, _, _)
scan_all_pagination(ctrls, i, log) ==
  IF i > Len(ctrls) THEN [found |-> FALSE, clicks |-> log]
  ELSE LET c == ctrls[i] IN
       IF /\ c.tag \in {"a", "button"}
          /\ ~query_raises(c)
          /\ c.label = "number"
          /\ is_visible(c) /\ is_enabled(c)
       THEN IF page_loads(c)
            THEN [found |-> TRUE, clicks |-> Append(log, ClickOf(ctrls, i, "scan"))]
            ELSE scan_all_pagination(ctrls, i + 1,
                                     Append(log, ClickOf(ctrls, i, "scan")))
       ELSE scan_all_pagination(ctrls, i + 1, log)

\* Lines 374-472, after the scroll of line 364: what the call returns and
\* the clicks it attempted.
go_to_next_page_fixed(ctrls) ==
  LET exact == exact_page_control(ctrls)
      pagination_element == IF exact # 0 THEN exact ELSE next_control(ctrls)
      stage == IF exact # 0 THEN "exact" ELSE "next"
  IN IF pagination_element # 0
     THEN [found |-> page_loads(ctrls[pagination_element]),
           clicks |-> <<ClickOf(ctrls, pagination_element, stage)>>]
     ELSE scan_all_pagination(ctrls, 1, <<>>)

GoToNextPage ==
  /\ pc = "fn_start"
  /\ pc' = "fn_paged"
  /\ \E r \in {go_to_next_page_fixed(controls)} :
       /\ next_page_found' = r.found
       /\ clicks' = r.clicks
  /\ UNCHANGED <<parser_vars, run_vars, site_vars, business_urls,
                 all_unique_links, current_page, consecutive_failures,
                 current_links, new_links, collected, halt_reason,
                 max_collected_page, ever_failed, goto_log, exit_vars,
                 function_vars, link, website, whatsapp, selector_outcomes,
                 selector_text, controls>>

\* Lines 364 and 474-476: the scroll raises and the call returns False.
PageSearchRaises ==
  /\ pc = "fn_start"
  /\ pc' = "fn_page_search_failed"
  /\ next_page_found' = FALSE
  /\ UNCHANGED <<parser_vars, run_vars, site_vars, business_urls,
                 all_unique_links, current_page, consecutive_failures,
                 current_links, new_links, collected, halt_reason,
                 max_collected_page, ever_failed, goto_log, exit_vars,
                 function_vars, extractor_vars>>

NextPager == GoToNextPage \/ PageSearchRaises

InitPager ==
  /\ NoRun
  /\ NoFunctionCall
  /\ max_items_per_category = default_max_items
  /\ pc = "fn_start"
  /\ link = <<>> /\ website = None /\ whatsapp = None
  /\ selector_outcomes = <<>> /\ selector_text = None
  /\ controls \in UNION {[1..n -> Controls] : n \in 0..MaxControls}
  /\ clicks = <<>>

SpecPager == InitPager /\ [][NextPager]_vars

\* The controls with the exact text that answer as visible, and the generic
\* next controls that answer as visible and enabled.
VisibleExact ==
  {i \in 1..Len(controls) :
     controls[i].label = "number" /\ is_visible(controls[i])}

UsableNext ==
  {i \in 1..Len(controls) :
     /\ controls[i].label = "next"
     /\ is_visible(controls[i]) /\ is_enabled(controls[i])}

\* C24: go_to_next_page_fixed picks its click target by strict priority: a
\* visible control with the exact page number is clicked whenever one
\* exists, a visible and enabled next control is used only when there is no
\* exact one, the scan of all links and buttons happens only when no next
\* control could be used either, and at most one control is clicked per call.
C24_StrictPriority ==
  pc = "fn_paged" =>
    /\ VisibleExact # {} =>
         clicks # <<>> /\ clicks[1].control \in VisibleExact
    /\ \A k \in 1..Len(clicks) :
         /\ clicks[k].stage = "next" =>
              VisibleExact = {} /\ clicks[k].control \in UsableNext
         /\ clicks[k].stage = "scan" => UsableNext = {}
    /\ Cardinality({k \in 1..Len(clicks) : clicks[k].made}) <= 1

\* ------------------------------------------------------ extract_whatsapp
\* The three stages of extract_whatsapp that build a link from a phone
\* number: from an attribute of a WhatsApp button (stage 2), from the page's
\* markup (stage 3) and from the text around the word WhatsApp (stage 4).
\* Each yields the link, or None, and whether the link was built from a
\* phone number.

MaxLeadDigits == 3

whatsapp_word == SubSeq(wa_send, 1, 8)

phone_word == <<"p", "h", "o", "n", "e">>

data_phone == <<"d", "a", "t", "a", "-">> \o phone_word

\* (\+?7\d{10})
phone_pattern ==
  <<Opt(Exact(<<"+">>))>> \o Exact(<<"7">>) \o [i \in 1..10 |-> One("\\d")]

\* str.replace(ch, ''), for each character of the set
without(s, chars) == SelectSeq(s, LAMBDA ch : ch \notin chars)

\* f"https://wa.me/{phone}"
wa_link(phone) == https_prefix \o wa_me \o phone

NoLink == [link |-> None, built |-> FALSE]

\* Lines 1059-1062: the country code goes before a 10-digit number that
\* does not start with 7; every other number stays as it is.
stage2_phone(phone) ==
  IF ~startswith(phone, <<"7">>) /\ Len(phone) = 10
  THEN <<"7">> \o phone
  ELSE phone

\* Lines 1049-1065, for one attribute value: the first pattern that matches
\* gives the number (the patterns are compiled without a flag).
whatsapp_from_attribute(attr_value) ==
  LET hits == re_findall(<<>>, phone_pattern, attr_value)
                 \o re_findall(Exact(wa_me), <<Plus("\\d")>>, attr_value)
                 \o re_findall(Exact(wa_send), <<Plus("\\d")>>, attr_value)
  IN IF hits = <<>> THEN NoLink
     ELSE [link |-> wa_link(stage2_phone(without(Head(hits), {"+"}))),
           built |-> TRUE]

\* Lines 1098-1104, compiled with re.IGNORECASE: the matches of the five
\* patterns, pattern by pattern.
whatsapp_patterns_matches(page_content) ==
  re_findall(Lit(whatsapp_word) \o <<Star("[^0-9]")>>, phone_pattern,
             page_content)
    \o re_findall(Lit(wa_me), <<Plus("\\d")>>, page_content)
    \o re_findall_within(
         Lit(data_phone) \o <<One("[\"']")>> \o Lit(<<":">>)
           \o <<Star("\\s"), One("[\"']")>>,
         phone_pattern, <<One("[\"']")>>, page_content)
    \o re_findall_within(
         Lit(phone_word) \o <<One("[\"']")>> \o Lit(<<":">>)
           \o <<Star("\\s"), One("[\"']")>>,
         phone_pattern, <<One("[\"']")>>, page_content)
    \o re_findall_within(
         Lit(whatsapp_word) \o <<Opt(<<One("[\"']")>>), Star("\\s")>>
           \o Lit(<<":">>) \o <<Star("\\s"), One("[\"']")>>,
         <<Plus("[^\"']")>>, <<One("[\"']")>>, page_content)

\* re.match(r'\+?7?\d{10,11}', match): the eleventh digit is optional.
looks_like_phone(match) ==
  MatchFrom(<<Opt(Exact(<<"+">>)), Opt(Exact(<<"7">>))>>
              \o [i \in 1..10 |-> One("\\d")], 1, match, 1) # 0

\* Lines 1108-1121: the first match that is a link, or a number of 10 digits
\* or of 11 digits starting with 7; the other matches are passed over.
RECURSIVE first_content_link(_, _)
first_content_link(matches, i) ==
  IF i > Len(matches) THEN NoLink
  ELSE LET match == matches[i]
           phone == without(match, {"+", " ", "-"})
       IN IF IsSubstring(SubSeq(wa_me, 1, 5), match)
             \/ IsSubstring(whatsapp_word, match)
          THEN [link |-> match, built |-> FALSE]
          ELSE IF looks_like_phone(match)
                  /\ Len(phone) = 11 /\ startswith(phone, <<"7">>)
          THEN [link |-> wa_link(phone), built |-> TRUE]
          ELSE IF looks_like_phone(match) /\ Len(phone) = 10
          THEN [link |-> wa_link(<<"7">> \o phone), built |-> TRUE]
          ELSE first_content_link(matches, i + 1)

\* Lines 1097-1121, for markup that holds no link.2gis.com link.
whatsapp_from_content(page_content) ==
  first_content_link(whatsapp_patterns_matches(page_content), 1)

\* Lines 1128-1147: the first 7 followed by ten digits within 100 characters
\* of the first "whatsapp" of the text.
whatsapp_from_text(page_text) ==
  LET text_lower == lower(page_text)
      at == {i \in 1..(Len(page_text) - 7) :
               SubSeq(text_lower, i, i + 7) = whatsapp_word}
  IN IF page_text = <<>> \/ at = {} THEN NoLink
     ELSE LET whatsapp_pos == (CHOOSE m \in at : \A n \in at : m <= n) - 1
              start == IF whatsapp_pos - 100 > 0 THEN whatsapp_pos - 100 ELSE 0
              end == IF whatsapp_pos + 100 < Len(page_text)
                     THEN whatsapp_pos + 100 ELSE Len(page_text)
              hits == re_findall(<<>>, phone_pattern,
                                  SubSeq(page_text, start + 1, end))
          IN IF hits = <<>> THEN NoLink
             ELSE LET phone == without(Head(hits), {"+"})
                  IN [link |-> wa_link(IF ~startswith(phone, <<"7">>)
                                       THEN <<"7">> \o phone ELSE phone),
                      built |-> TRUE]

\* The phone numbers drawn: nine fixed digits after up to MaxLeadDigits
\* leading ones.
PhoneLeads == {"7", "8", "9"}

PhoneBody == <<"0", "7", "1", "2", "3", "4", "5", "6", "7">>

Phones ==
  {lead \o PhoneBody :
     lead \in UNION {[1..n -> PhoneLeads] : n \in 0..MaxLeadDigits}}

\* What stands before and after the number in the text.
PhoneContexts ==
  { <<<<>>, <<>>>>,
    <<wa_me, <<>>>>,
    <<wa_send, <<>>>>,
    <<<<"W", "h", "a", "t", "s", "A", "p", "p", ":", " ">>, <<>>>>,
    <<<<"W", "h", "a", "t", "s", "A", "p", "p", " ", "+">>, <<>>>>,
    <<data_phone \o <<"\"", ":", " ", "\"">>, <<"\"">>>>,
    <<phone_word \o <<"'", ":", "'", "+">>, <<"'">>>>,
    <<whatsapp_word \o <<"\"", ":", "\"">>, <<"\"">>>>,
    <<whatsapp_word \o <<":", " ", "'", "+">>, <<"'">>>>,
    <<<<"t", "e", "l", " ">>, <<>>>> }

\* raw_b is the number, raw_a the text that holds it.
WhatsAppFromAttribute ==
  /\ pc = "fn_start"
  /\ pc' = "fn_wa_attribute"
  /\ \E r \in {whatsapp_from_attribute(raw_a)} :
       whatsapp' = r.link /\ verdict_ab' = r.built
  /\ UNCHANGED <<run_state, raw_a, raw_b, key_a, key_b, verdict_ba, link,
                 website, selector_outcomes, selector_text, pager_vars>>

WhatsAppFromContent ==
  /\ pc = "fn_start"
  /\ pc' = "fn_wa_content"
  /\ \E r \in {whatsapp_from_content(raw_a)} :
       whatsapp' = r.link /\ verdict_ab' = r.built
  /\ UNCHANGED <<run_state, raw_a, raw_b, key_a, key_b, verdict_ba, link,
                 website, selector_outcomes, selector_text, pager_vars>>

WhatsAppFromText ==
  /\ pc = "fn_start"
  /\ pc' = "fn_wa_text"
  /\ \E r \in {whatsapp_from_text(raw_a)} :
       whatsapp' = r.link /\ verdict_ab' = r.built
  /\ UNCHANGED <<run_state, raw_a, raw_b, key_a, key_b, verdict_ba, link,
                 website, selector_outcomes, selector_text, pager_vars>>

NextWhatsApp ==
  WhatsAppFromAttribute \/ WhatsAppFromContent \/ WhatsAppFromText

InitWhatsApp ==
  /\ NoRun
  /\ NoExtraction
  /\ max_items_per_category = default_max_items
  /\ pc = "fn_start"
  /\ raw_b \in Phones
  /\ \E context \in PhoneContexts :
       raw_a = context[1] \o raw_b \o context[2]
  /\ key_a = <<>> /\ key_b = <<>>
  /\ verdict_ab = FALSE /\ verdict_ba = FALSE

SpecWhatsApp == InitWhatsApp /\ [][NextWhatsApp]_vars

\* C25: in every stage of extract_whatsapp that builds a link from a bare
\* phone number, a 10-digit number yields https://wa.me/7 followed by the
\* ten digits and an 11-digit number starting with 7 yields https://wa.me/
\* followed by the eleven digits.
C25_ElevenDigitLinks ==
  (pc \in {"fn_wa_attribute", "fn_wa_content", "fn_wa_text"} /\ verdict_ab) =>
    /\ Len(raw_b) = 10 => whatsapp = wa_link(<<"7">> \o raw_b)
    /\ (Len(raw_b) = 11 /\ startswith(raw_b, <<"7">>)) =>
         whatsapp = wa_link(raw_b)

====
